---- MODULE Spec2Model ----
(***************************************************************************)
(* Model of server.js of climbing-timer-web: the room registry, the        *)
(* per-room phase clock (setInterval tick + delayed zero-crossing          *)
(* setTimeout), the climber rotation engine and the socket handlers.       *)
(*                                                                         *)
(* JavaScript arrays are modelled as functions over 0..n-1 so that every   *)
(* index comparison of the source (currentClimberIndex > 1, boulderIndex   *)
(* < length - 1, modulo arithmetic) reads exactly as in the code.  Maps    *)
(* and plain objects used as dictionaries (rooms, climberProgress, the     *)
(* data directory) are functions whose DOMAIN is the set of present keys.  *)
(***************************************************************************)
EXTENDS Integers, Sequences, FiniteSets, TLC

VARIABLES
  rooms,      \* the registry Map: room id -> room object
  disk,       \* data/room_<id>.json: room id -> persisted {rounds, activeRoundIndex}
  sockets,    \* connected sockets: socket id -> socket.roomId
  intervals,  \* live setInterval timers: room id -> number of recurring ticks armed
  timeouts,   \* pending zero-crossing setTimeout callbacks: room id -> number pending
  calls,      \* advanceBoulder invocations of the last handler, in call order
  last        \* the last handler that ran (name, room, and what it decided)

vars == <<rooms, disk, sockets, intervals, timeouts, calls, last>>

----------------------------------------------------------------------------
(* Bounds of the model *)

\* largest countdown value from which the model lets the clock tick
MaxRemaining == 2
\* largest number of zero-crossing callbacks pending for one room
MaxPending == 2
\* batched passes from a fresh category that the pass-counting properties follow
MaxPasses == 18

(* Program constants *)
DEFAULT_ROOM == "default"

RoomIds == {"default", "gym"}
SocketIds == {"s1", "s2"}

----------------------------------------------------------------------------
(* JavaScript array helpers *)

ALen(a) == Cardinality(DOMAIN a)

Arr(s) == [i \in 0..(Len(s) - 1) |-> s[i + 1]]

APush(a, x) == [i \in 0..ALen(a) |-> IF i = ALen(a) THEN x ELSE a[i]]

\* Array.prototype.includes on a progress list
Includes(s, x) == \E k \in DOMAIN s : s[k] = x

MinOf(S) == CHOOSE m \in S : \A k \in S : m <= k

\* Array.prototype.sort((a, b) => a - b) on a list of distinct-or-not numbers
RECURSIVE SortAsc(_)
SortAsc(s) ==
  IF Len(s) = 0 THEN <<>>
  ELSE LET m == MinOf({s[k] : k \in 1..Len(s)})
           p == MinOf({k \in 1..Len(s) : s[k] = m})
           rest == [k \in 1..(Len(s) - 1) |-> IF k < p THEN s[k] ELSE s[k + 1]]
       IN <<m>> \o SortAsc(rest)

----------------------------------------------------------------------------
(* Climber completion tracking *)

\* category.climberProgress[climberName] || []
ProgressOf(category, climberName) ==
  IF climberName \in DOMAIN category.climberProgress
  THEN category.climberProgress[climberName]
  ELSE <<>>

recordNothing(category, climberName, boulderId) == category

recordWithoutIncludesTest(category, climberName, boulderId) ==
  LET cur == ProgressOf(category, climberName)
  IN [category EXCEPT !.climberProgress =
        [n \in (DOMAIN @) \cup {climberName} |->
           IF n = climberName THEN SortAsc(Append(cur, boulderId)) ELSE @[n]]]

recordClimberProgress(category, climberName, boulderId) ==
  LET cur == ProgressOf(category, climberName)
      new == IF Includes(cur, boulderId) THEN cur
             ELSE SortAsc(Append(cur, boulderId))
  IN [category EXCEPT !.climberProgress =
        [n \in (DOMAIN @) \cup {climberName} |->
           IF n = climberName THEN new ELSE @[n]]]

isClimberCompleted(category, climberName) ==
  LET progress == ProgressOf(category, climberName)
  IN Len(progress) >= 4 /\ \A b \in {1, 2, 3, 4} : Includes(progress, b)

getNextActiveClimberIndexSkipNobody(boulder, category, startIndex) ==
  IF ALen(boulder.climbers) = 0 THEN 0 ELSE startIndex

getNextActiveClimberIndex(boulder, category, startIndex) ==
  LET climbers == boulder.climbers
      n == ALen(climbers)
      open == {i \in 0..(n - 1) :
                 ~isClimberCompleted(category, climbers[(startIndex + i) % n])}
  IN IF n = 0 THEN 0
     ELSE IF open = {} THEN startIndex
     ELSE (startIndex + MinOf(open)) % n

----------------------------------------------------------------------------
(* Rotation engine *)

canBoulderStartOncePreviousStarted(category, boulderIndex) ==
  IF boulderIndex = 0 THEN TRUE
  ELSE category.boulders[boulderIndex - 1].hasStarted

canBoulderStartAfterOneAdvance(category, boulderIndex) ==
  IF boulderIndex = 0 THEN TRUE
  ELSE LET prevBoulder == category.boulders[boulderIndex - 1]
       IN prevBoulder.hasStarted /\ prevBoulder.currentClimberIndex > 0

canBoulderStart(category, boulderIndex) ==
  IF boulderIndex = 0 THEN TRUE
  ELSE LET prevBoulder == category.boulders[boulderIndex - 1]
       IN prevBoulder.hasStarted /\ prevBoulder.currentClimberIndex > 1

advanceBoulderScanBeforeRecording(category, boulderIndex) ==
  LET boulder == category.boulders[boulderIndex]
      n == ALen(boulder.climbers)
  IN IF n = 0 THEN category
     ELSE IF boulder.skipNext THEN
       LET cleared == [category EXCEPT !.boulders[boulderIndex].skipNext = FALSE]
       IN IF boulderIndex < ALen(category.boulders) - 1
          THEN [cleared EXCEPT !.boulders[boulderIndex + 1].skipNext = TRUE]
          ELSE cleared
     ELSE IF ~boulder.hasStarted THEN
       IF ~canBoulderStart(category, boulderIndex) THEN category
       ELSE LET started == [category EXCEPT !.boulders[boulderIndex].hasStarted = TRUE]
            IN IF boulder.currentClimberIndex \in DOMAIN boulder.climbers
               THEN recordClimberProgress(started,
                      boulder.climbers[boulder.currentClimberIndex], boulder.boulderId)
               ELSE started
     ELSE
       LET recorded == IF boulder.currentClimberIndex \in DOMAIN boulder.climbers
                       THEN recordClimberProgress(category,
                              boulder.climbers[boulder.currentClimberIndex],
                              boulder.boulderId)
                       ELSE category
           nextIndex == (boulder.currentClimberIndex + 1) % n
       IN [recorded EXCEPT !.boulders[boulderIndex].currentClimberIndex =
             getNextActiveClimberIndex(boulder, category, nextIndex)]

advanceBoulderSkipMovesPointer(category, boulderIndex) ==
  LET boulder == category.boulders[boulderIndex]
      n == ALen(boulder.climbers)
  IN IF n = 0 THEN category
     ELSE IF boulder.skipNext THEN
       LET cleared == [category EXCEPT !.boulders[boulderIndex].skipNext = FALSE,
                                         !.boulders[boulderIndex].currentClimberIndex =
                                            (@ + 1) % n]
       IN IF boulderIndex < ALen(category.boulders) - 1
          THEN [cleared EXCEPT !.boulders[boulderIndex + 1].skipNext = TRUE]
          ELSE cleared
     ELSE IF ~boulder.hasStarted THEN
       IF ~canBoulderStart(category, boulderIndex) THEN category
       ELSE LET started == [category EXCEPT !.boulders[boulderIndex].hasStarted = TRUE]
            IN IF boulder.currentClimberIndex \in DOMAIN boulder.climbers
               THEN recordClimberProgress(started,
                      boulder.climbers[boulder.currentClimberIndex], boulder.boulderId)
               ELSE started
     ELSE
       LET recorded == IF boulder.currentClimberIndex \in DOMAIN boulder.climbers
                       THEN recordClimberProgress(category,
                              boulder.climbers[boulder.currentClimberIndex],
                              boulder.boulderId)
                       ELSE category
           nextIndex == (boulder.currentClimberIndex + 1) % n
       IN [recorded EXCEPT !.boulders[boulderIndex].currentClimberIndex =
             getNextActiveClimberIndex(boulder, recorded, nextIndex)]

advanceBoulderStartMovesPointer(category, boulderIndex) ==
  LET boulder == category.boulders[boulderIndex]
      n == ALen(boulder.climbers)
  IN IF n = 0 THEN category
     ELSE IF boulder.skipNext THEN
       LET cleared == [category EXCEPT !.boulders[boulderIndex].skipNext = FALSE]
       IN IF boulderIndex < ALen(category.boulders) - 1
          THEN [cleared EXCEPT !.boulders[boulderIndex + 1].skipNext = TRUE]
          ELSE cleared
     ELSE IF ~boulder.hasStarted THEN
       IF ~canBoulderStart(category, boulderIndex) THEN category
       ELSE LET started == [category EXCEPT !.boulders[boulderIndex].hasStarted = TRUE,
                                         !.boulders[boulderIndex].currentClimberIndex =
                                            (@ + 1) % n]
            IN IF boulder.currentClimberIndex \in DOMAIN boulder.climbers
               THEN recordClimberProgress(started,
                      boulder.climbers[boulder.currentClimberIndex], boulder.boulderId)
               ELSE started
     ELSE
       LET recorded == IF boulder.currentClimberIndex \in DOMAIN boulder.climbers
                       THEN recordClimberProgress(category,
                              boulder.climbers[boulder.currentClimberIndex],
                              boulder.boulderId)
                       ELSE category
           nextIndex == (boulder.currentClimberIndex + 1) % n
       IN [recorded EXCEPT !.boulders[boulderIndex].currentClimberIndex =
             getNextActiveClimberIndex(boulder, recorded, nextIndex)]

\* advanceBoulder(category.boulders[boulderIndex], category, boulderIndex):
\* every caller passes the boulder's own index, so boulderIndex is never null.
advanceBoulder(category, boulderIndex) ==
  LET boulder == category.boulders[boulderIndex]
      n == ALen(boulder.climbers)
  IN IF n = 0 THEN category
     ELSE IF boulder.skipNext THEN
       LET cleared == [category EXCEPT !.boulders[boulderIndex].skipNext = FALSE]
       IN IF boulderIndex < ALen(category.boulders) - 1
          THEN [cleared EXCEPT !.boulders[boulderIndex + 1].skipNext = TRUE]
          ELSE cleared
     ELSE IF ~boulder.hasStarted THEN
       IF ~canBoulderStart(category, boulderIndex) THEN category
       ELSE LET started == [category EXCEPT !.boulders[boulderIndex].hasStarted = TRUE]
            IN IF boulder.currentClimberIndex \in DOMAIN boulder.climbers
               THEN recordClimberProgress(started,
                      boulder.climbers[boulder.currentClimberIndex], boulder.boulderId)
               ELSE started
     ELSE
       LET recorded == IF boulder.currentClimberIndex \in DOMAIN boulder.climbers
                       THEN recordClimberProgress(category,
                              boulder.climbers[boulder.currentClimberIndex],
                              boulder.boulderId)
                       ELSE category
           nextIndex == (boulder.currentClimberIndex + 1) % n
       IN [recorded EXCEPT !.boulders[boulderIndex].currentClimberIndex =
             getNextActiveClimberIndex(boulder, recorded, nextIndex)]

\* for (let i = 0; i < category.boulders.length; i++) advanceBoulder(boulders[i], category, i)
\* continued from boulder i
RECURSIVE advanceBouldersFrom(_, _)
advanceBouldersFrom(category, i) ==
  IF i >= ALen(category.boulders) THEN category
  ELSE advanceBouldersFrom(advanceBoulder(category, i), i + 1)

advanceAllBoulders(category) == advanceBouldersFrom(category, 0)

\* the category as the loop finds it just before boulder i is advanced
RECURSIVE BeforeBoulder(_, _)
BeforeBoulder(category, i) ==
  IF i = 0 THEN category
  ELSE advanceBoulder(BeforeBoulder(category, i - 1), i - 1)

\* one entry of calls: the category before and after one advanceBoulder invocation
Call(before, i) ==
  [cat |-> before.id, i |-> i, before |-> before, after |-> advanceBoulder(before, i)]

\* the invocations made by the loop over all boulders of one category
LoopCalls(category) ==
  [k \in 1..ALen(category.boulders) |-> Call(BeforeBoulder(category, k - 1), k - 1)]

\* the invocations made by forEach(category => loop over all its boulders), from category k on
RECURSIVE ForEachCalls(_, _)
ForEachCalls(categories, k) ==
  IF k >= ALen(categories) THEN <<>>
  ELSE LoopCalls(categories[k]) \o ForEachCalls(categories, k + 1)

FindCategoryOrFirst(categories, categoryId) ==
  LET hits == {k \in DOMAIN categories : categories[k].id = categoryId}
  IN IF hits # {} THEN MinOf(hits)
     ELSE IF ALen(categories) > 0 THEN 0 ELSE -1

\* index of the first element satisfying the test, or -1 (Array.prototype.findIndex)
FindCategory(categories, categoryId) ==
  LET hits == {k \in DOMAIN categories : categories[k].id = categoryId}
  IN IF hits = {} THEN -1 ELSE MinOf(hits)

FindBoulder(category, boulderId) ==
  LET hits == {k \in DOMAIN category.boulders : category.boulders[k].boulderId = boulderId}
  IN IF hits = {} THEN -1 ELSE MinOf(hits)

advanceFirstCategoryOnly(categories) ==
  [k \in DOMAIN categories |->
     IF k = 0 THEN advanceAllBoulders(categories[k]) ELSE categories[k]]

\* timerState.categories.forEach(category => { for (i...) advanceBoulder(...) })
advanceNonHeldClimbers(categories) ==
  [k \in DOMAIN categories |-> advanceAllBoulders(categories[k])]

----------------------------------------------------------------------------
(* Rooms and persistence *)

\* a category as the import and the operator page create it: four boulders with
\* the same roster, pointer 0, not started, no skip, empty ledger
NewCategory(id, name, climbers) ==
  [id |-> id, name |-> name,
   boulders |-> [b \in 0..3 |->
      [boulderId |-> b + 1, climbers |-> climbers, currentClimberIndex |-> 0,
       skipNext |-> FALSE, hasStarted |-> FALSE]],
   climberProgress |-> <<>>]

\* zeroArmed is history: TRUE when the countdown in progress has reached 0 and armed
\* its callback, i.e. a tick has computed next = 0 since remaining was last written
\* by anything but a tick.
\* sharedCategories records object identity: TRUE when timerState.categories holds
\* the very category objects of rounds[activeRoundIndex].categories, so that a
\* mutation made through one is seen through the other.
createRoomState ==
  [timerState |->
     [climbMin |-> 4, climbSec |-> 0, transMin |-> 1, transSec |-> 0,
      phase |-> "stopped", running |-> FALSE, remaining |-> 240, showNames |-> TRUE,
      rounds |-> <<>>, activeRoundIndex |-> 0, categories |-> <<>>],
   timerInterval |-> FALSE,
   connectedClients |-> 0,
   lastActivity |-> "recent",
   sharedCategories |-> FALSE,
   zeroArmed |-> FALSE]

totalClimb(timerState) == timerState.climbMin * 60 + timerState.climbSec
totalTrans(timerState) == timerState.transMin * 60 + timerState.transSec

\* room.lastActivity = Date.now()
Touch(room) == [room EXCEPT !.lastActivity = "recent"]

dataToSaveFirstRoundActive(room) ==
  [rounds |-> room.timerState.rounds, activeRoundIndex |-> 0]

\* the object written by saveRoomData
dataToSave(room) ==
  [rounds |-> room.timerState.rounds,
   activeRoundIndex |-> room.timerState.activeRoundIndex]

saveRoomData(d, roomId, room) == (roomId :> dataToSave(room)) @@ d

\* the room getOrCreateRoom builds for an id that is not in the registry
loadedRoom(d, roomId) ==
  IF roomId \notin DOMAIN d THEN createRoomState
  ELSE LET persistedData == d[roomId]
           index == persistedData.activeRoundIndex
           found == index \in DOMAIN persistedData.rounds
       IN [createRoomState EXCEPT
             !.timerState.rounds = persistedData.rounds,
             !.timerState.activeRoundIndex = index,
             !.timerState.categories =
                IF found THEN persistedData.rounds[index].categories ELSE <<>>,
             !.sharedCategories = found]

getOrCreateRoom(rs, d, roomId) ==
  IF roomId \in DOMAIN rs THEN rs ELSE (roomId :> loadedRoom(d, roomId)) @@ rs

Without(f, k) == [x \in (DOMAIN f) \ {k} |-> f[x]]

\* a mutation of the category objects reached through timerState.categories
WriteCategories(room, categories) ==
  LET ts == room.timerState
  IN [room EXCEPT
        !.timerState.categories = categories,
        !.timerState.rounds =
           IF room.sharedCategories
           THEN [@ EXCEPT ![ts.activeRoundIndex].categories = categories]
           ELSE @]

\* ts.rounds[ts.activeRoundIndex].categories = ts.categories
SyncToActiveRound(room) ==
  LET ts == room.timerState
  IN [room EXCEPT
        !.timerState.rounds = [@ EXCEPT ![ts.activeRoundIndex].categories = ts.categories],
        !.sharedCategories = TRUE]

----------------------------------------------------------------------------
(* The per-room clock *)

\* returns the room and the number of live recurring ticks after the call
startServerTimerForRoomNoop(room, live) == [room |-> room, live |-> live]

startServerTimerForRoom(room, live) ==
  IF room.timerInterval THEN [room |-> room, live |-> live]
  ELSE [room |-> [room EXCEPT !.timerInterval = TRUE], live |-> live + 1]

stopServerTimerForRoomKeepsTicking(room, live) ==
  [room |-> [room EXCEPT !.timerInterval = FALSE], live |-> live]

stopServerTimerForRoom(room, live) ==
  IF room.timerInterval
  THEN [room |-> [room EXCEPT !.timerInterval = FALSE], live |-> live - 1]
  ELSE [room |-> room, live |-> live]

----------------------------------------------------------------------------
(* Outcome of a handler *)

\* the sockets that have joined the Socket.IO room r: the recipients of io.to(r).emit
RoomSockets(r) == {s \in DOMAIN sockets : sockets[s] = r}

\* io.to(r).emit(event, ...) for each of the events: event name |-> recipients
Broadcast(events, r) == [event \in events |-> RoomSockets(r)]

\* the handler returned early (or threw into its catch block) before changing anything
Dropped(op, r) ==
  /\ last' = [op |-> op, room |-> r, applied |-> FALSE, emits |-> <<>>]
  /\ calls' = <<>>
  /\ UNCHANGED <<rooms, disk, sockets, intervals, timeouts>>

AppliedToEveryRoom(op, r, events, room, cs, save) ==
  /\ rooms' = [x \in DOMAIN rooms |-> room]
  /\ disk' = IF save THEN saveRoomData(disk, r, room) ELSE disk
  /\ calls' = cs
  /\ last' = [op |-> op, room |-> r, applied |-> TRUE, emits |-> Broadcast(events, r)]
  /\ UNCHANGED <<sockets, intervals, timeouts>>

\* the handler left the room as `room`, made the advanceBoulder invocations cs,
\* broadcast the events to the room and called saveRoomData iff save
Applied(op, r, events, room, cs, save) ==
  /\ rooms' = [rooms EXCEPT ![r] = room]
  /\ disk' = IF save THEN saveRoomData(disk, r, room) ELSE disk
  /\ calls' = cs
  /\ last' = [op |-> op, room |-> r, applied |-> TRUE, emits |-> Broadcast(events, r)]
  /\ UNCHANGED <<sockets, intervals, timeouts>>

\* as Applied, for a handler whose arguments and local values the properties refer to
AppliedWith(op, r, events, room, cs, save, locals) ==
  /\ rooms' = [rooms EXCEPT ![r] = room]
  /\ disk' = IF save THEN saveRoomData(disk, r, room) ELSE disk
  /\ calls' = cs
  /\ last' = [op |-> op, room |-> r, applied |-> TRUE,
              emits |-> Broadcast(events, r)] @@ locals
  /\ UNCHANGED <<sockets, intervals, timeouts>>

----------------------------------------------------------------------------
(* Socket handlers of the rotation engine *)

AdvanceClimber(s, categoryId, boulderId) ==
  /\ s \in DOMAIN sockets
  /\ LET r == sockets[s]
     IN IF r \notin DOMAIN rooms THEN Dropped("advance-climber", r)
        ELSE LET room == rooms[r]
                 cats == room.timerState.categories
                 k == FindCategory(cats, categoryId)
             IN IF k = -1 THEN Dropped("advance-climber", r)
                ELSE LET category == cats[k]
                         boulderIndex == FindBoulder(category, boulderId)
                     IN IF boulderIndex = -1 THEN Dropped("advance-climber", r)
                        ELSE IF ALen(category.boulders[boulderIndex].climbers) = 0
                        THEN Dropped("advance-climber", r)
                        ELSE Applied("advance-climber", r, {"categories-sync"},
                               Touch(WriteCategories(room,
                                 [cats EXCEPT ![k] = advanceBoulder(category, boulderIndex)])),
                               <<Call(category, boulderIndex)>>, TRUE)

\* advance-boulder: the boulder with this id in every category
BoulderInEachCategory(cats, boulderId) ==
  [k \in DOMAIN cats |->
     IF FindBoulder(cats[k], boulderId) = -1 THEN cats[k]
     ELSE advanceBoulder(cats[k], FindBoulder(cats[k], boulderId))]

RECURSIVE BoulderInEachCalls(_, _, _)
BoulderInEachCalls(cats, boulderId, k) ==
  IF k >= ALen(cats) THEN <<>>
  ELSE (IF FindBoulder(cats[k], boulderId) = -1 THEN <<>>
        ELSE <<Call(cats[k], FindBoulder(cats[k], boulderId))>>)
       \o BoulderInEachCalls(cats, boulderId, k + 1)

AdvanceBoulderCmd(s, boulderId) ==
  /\ s \in DOMAIN sockets
  /\ LET r == sockets[s]
     IN IF r \notin DOMAIN rooms THEN Dropped("advance-boulder", r)
        ELSE LET room == rooms[r]
                 cats == room.timerState.categories
             IN Applied("advance-boulder", r, {"categories-sync"},
                  Touch(WriteCategories(room, BoulderInEachCategory(cats, boulderId))),
                  BoulderInEachCalls(cats, boulderId, 0), TRUE)

AdvanceCategory(s, categoryId) ==
  /\ s \in DOMAIN sockets
  /\ LET r == sockets[s]
     IN IF r \notin DOMAIN rooms THEN Dropped("advance-category", r)
        ELSE LET room == rooms[r]
                 cats == room.timerState.categories
                 k == FindCategory(cats, categoryId)
             IN IF k = -1 THEN Dropped("advance-category", r)
                ELSE Applied("advance-category", r, {"categories-sync"},
                       Touch(WriteCategories(room,
                         [cats EXCEPT ![k] = advanceAllBoulders(cats[k])])),
                       LoopCalls(cats[k]), TRUE)

AdvanceAllClimbers(s) ==
  /\ s \in DOMAIN sockets
  /\ LET r == sockets[s]
     IN IF r \notin DOMAIN rooms THEN Dropped("advance-all-climbers", r)
        ELSE LET room == rooms[r]
                 cats == room.timerState.categories
             IN Applied("advance-all-climbers", r, {"categories-sync"},
                  Touch(WriteCategories(room, advanceNonHeldClimbers(cats))),
                  ForEachCalls(cats, 0), TRUE)

SkipBoulderClimberUnstartedToo(s, categoryId, boulderId) ==
  /\ s \in DOMAIN sockets
  /\ LET r == sockets[s]
     IN IF r \notin DOMAIN rooms THEN Dropped("skip-boulder-climber", r)
        ELSE LET room == rooms[r]
                 cats == room.timerState.categories
                 k == FindCategory(cats, categoryId)
             IN IF k = -1 THEN Dropped("skip-boulder-climber", r)
                ELSE LET category == cats[k]
                         boulderIndex == FindBoulder(category, boulderId)
                     IN IF boulderIndex = -1 THEN Dropped("skip-boulder-climber", r)
                        ELSE AppliedWith("skip-boulder-climber", r, {"categories-sync"},
                               Touch(WriteCategories(room,
                                 [cats EXCEPT ![k] =
                                    IF boulderIndex < ALen(category.boulders) - 1
                                    THEN [category EXCEPT
                                            !.boulders[boulderIndex + 1].skipNext = TRUE]
                                    ELSE category])),
                               <<>>, TRUE,
                               [categoryId |-> categoryId, boulderIndex |-> boulderIndex])

SkipBoulderClimber(s, categoryId, boulderId) ==
  /\ s \in DOMAIN sockets
  /\ LET r == sockets[s]
     IN IF r \notin DOMAIN rooms THEN Dropped("skip-boulder-climber", r)
        ELSE LET room == rooms[r]
                 cats == room.timerState.categories
                 k == FindCategory(cats, categoryId)
             IN IF k = -1 THEN Dropped("skip-boulder-climber", r)
                ELSE LET category == cats[k]
                         boulderIndex == FindBoulder(category, boulderId)
                     IN IF boulderIndex = -1 THEN Dropped("skip-boulder-climber", r)
                        ELSE IF ~category.boulders[boulderIndex].hasStarted
                        THEN Dropped("skip-boulder-climber", r)
                        ELSE AppliedWith("skip-boulder-climber", r, {"categories-sync"},
                               Touch(WriteCategories(room,
                                 [cats EXCEPT ![k] =
                                    IF boulderIndex < ALen(category.boulders) - 1
                                    THEN [category EXCEPT
                                            !.boulders[boulderIndex + 1].skipNext = TRUE]
                                    ELSE category])),
                               <<>>, TRUE,
                               [categoryId |-> categoryId, boulderIndex |-> boulderIndex])

\* climberProgress = {}; every boulder back to index 0, not started, no skip
resetCategoryKeepsPointers(category) ==
  [category EXCEPT
     !.climberProgress = <<>>,
     !.boulders = [b \in DOMAIN @ |->
        [@[b] EXCEPT !.hasStarted = FALSE, !.skipNext = FALSE]]]

resetCategoryKeepsLedger(category) ==
  [category EXCEPT
     !.boulders = [b \in DOMAIN @ |->
        [@[b] EXCEPT !.currentClimberIndex = 0, !.hasStarted = FALSE, !.skipNext = FALSE]]]

resetCategory(category) ==
  [category EXCEPT
     !.climberProgress = <<>>,
     !.boulders = [b \in DOMAIN @ |->
        [@[b] EXCEPT !.currentClimberIndex = 0, !.hasStarted = FALSE, !.skipNext = FALSE]]]

ResetEveryCategory(s, categoryId) ==
  /\ s \in DOMAIN sockets
  /\ LET r == sockets[s]
     IN IF r \notin DOMAIN rooms THEN Dropped("reset-category-progress", r)
        ELSE LET room == rooms[r]
                 cats == room.timerState.categories
                 k == FindCategory(cats, categoryId)
             IN IF k = -1 THEN Dropped("reset-category-progress", r)
                ELSE AppliedWith("reset-category-progress", r, {"categories-sync"},
                       Touch(WriteCategories(room,
                         [j \in DOMAIN cats |-> resetCategory(cats[j])])),
                       <<>>, TRUE, [categoryId |-> categoryId])

ResetCategoryProgress(s, categoryId) ==
  /\ s \in DOMAIN sockets
  /\ LET r == sockets[s]
     IN IF r \notin DOMAIN rooms THEN Dropped("reset-category-progress", r)
        ELSE LET room == rooms[r]
                 cats == room.timerState.categories
                 k == FindCategory(cats, categoryId)
             IN IF k = -1 THEN Dropped("reset-category-progress", r)
                ELSE AppliedWith("reset-category-progress", r, {"categories-sync"},
                       Touch(WriteCategories(room,
                         [cats EXCEPT ![k] = resetCategory(cats[k])])),
                       <<>>, TRUE, [categoryId |-> categoryId])

----------------------------------------------------------------------------
(* The rotation engine on one category: a room restarted from a saved import *)

RotationRosters == {Arr(<<"A">>), Arr(<<"A", "B">>), Arr(<<"A", "B", "C">>)}

\* ids a client can name: the four boulders and one that does not exist
BoulderIdArgs == {1, 2, 3, 4, 9}
CategoryIdArgs == {1, 7}

SavedImport(climbers) ==
  [rounds |-> Arr(<<[name |-> "Round 1",
                     categories |-> Arr(<<NewCategory(1, "Open", climbers)>>)]>>),
   activeRoundIndex |-> 0]

InitRotation ==
  \E climbers \in RotationRosters :
    /\ disk = (DEFAULT_ROOM :> SavedImport(climbers))
    /\ rooms = (DEFAULT_ROOM :>
                  [loadedRoom(disk, DEFAULT_ROOM) EXCEPT !.connectedClients = 1])
    /\ sockets = ("s1" :> DEFAULT_ROOM)
    /\ intervals = [r \in RoomIds |-> 0]
    /\ timeouts = [r \in RoomIds |-> 0]
    /\ calls = <<>>
    /\ last = [op |-> "listen", room |-> DEFAULT_ROOM, applied |-> TRUE, emits |-> <<>>]

NextRotation ==
  \E s \in SocketIds :
    \/ \E c \in CategoryIdArgs, b \in BoulderIdArgs : AdvanceClimber(s, c, b)
    \/ \E b \in BoulderIdArgs : AdvanceBoulderCmd(s, b)
    \/ \E c \in CategoryIdArgs : AdvanceCategory(s, c)
    \/ AdvanceAllClimbers(s)
    \/ \E c \in CategoryIdArgs, b \in BoulderIdArgs : SkipBoulderClimber(s, c, b)
    \/ \E c \in CategoryIdArgs : ResetCategoryProgress(s, c)

SpecRotation == InitRotation /\ [][NextRotation]_vars

----------------------------------------------------------------------------
(* Consecutive climb-phase ends on a fresh category: batched passes only *)

CascadeRosters ==
  RotationRosters \cup {Arr(<<"A", "B", "C", "D">>), Arr(<<"A", "B", "C", "D", "E">>)}

InitCascade ==
  \E climbers \in CascadeRosters :
    /\ disk = (DEFAULT_ROOM :> SavedImport(climbers))
    /\ rooms = (DEFAULT_ROOM :>
                  [loadedRoom(disk, DEFAULT_ROOM) EXCEPT !.connectedClients = 1])
    /\ sockets = ("s1" :> DEFAULT_ROOM)
    /\ intervals = [r \in RoomIds |-> 0]
    /\ timeouts = [r \in RoomIds |-> 0]
    /\ calls = <<>>
    /\ last = [op |-> "listen", room |-> DEFAULT_ROOM, applied |-> TRUE, emits |-> <<>>]

NextCascade ==
  \E s \in SocketIds :
    \/ AdvanceCategory(s, 1)
    \/ AdvanceAllClimbers(s)

SpecCascade == InitCascade /\ [][NextCascade]_vars

----------------------------------------------------------------------------
(* The clock: timer-update, config-update, the recurring tick, the delayed handler *)

\* Object.assign(ts, newState), for the keys the timer state has
ObjectAssign(ts, newState) ==
  [key \in DOMAIN ts |-> IF key \in DOMAIN newState THEN newState[key] ELSE ts[key]]

TimerUpdate(s, newState) ==
  /\ s \in DOMAIN sockets
  /\ LET r == sockets[s]
     IN IF r \notin DOMAIN rooms THEN Dropped("timer-update", r)
        ELSE LET room == rooms[r]
                 wasRunning == room.timerState.running
                 assigned == Touch([room EXCEPT
                    !.timerState = ObjectAssign(@, newState),
                    !.sharedCategories = IF "categories" \in DOMAIN newState THEN FALSE ELSE @,
                    !.zeroArmed = IF "remaining" \in DOMAIN newState THEN FALSE ELSE @])
                 timer == IF assigned.timerState.running /\ ~wasRunning
                          THEN startServerTimerForRoom(assigned, intervals[r])
                          ELSE IF ~assigned.timerState.running /\ wasRunning
                          THEN stopServerTimerForRoom(assigned, intervals[r])
                          ELSE [room |-> assigned, live |-> intervals[r]]
             IN /\ rooms' = [rooms EXCEPT ![r] = timer.room]
                /\ intervals' = [intervals EXCEPT ![r] = timer.live]
                /\ calls' = <<>>
                /\ last' = [op |-> "timer-update", room |-> r, applied |-> TRUE,
                            emits |-> Broadcast({"timer-sync"}, r),
                            patch |-> newState, wasRunning |-> wasRunning]
                /\ UNCHANGED <<disk, sockets, timeouts>>

ConfigUpdate(s, config) ==
  /\ s \in DOMAIN sockets
  /\ LET r == sockets[s]
     IN IF r \notin DOMAIN rooms THEN Dropped("config-update", r)
        ELSE Applied("config-update", r, {"config-sync"},
               Touch([rooms[r] EXCEPT
                  !.timerState.climbMin = config.climbMin,
                  !.timerState.climbSec = config.climbSec,
                  !.timerState.transMin = config.transMin,
                  !.timerState.transSec = config.transSec,
                  !.timerState.showNames =
                     IF "showNames" \in DOMAIN config THEN config.showNames ELSE @]),
               <<>>, FALSE)

\* Math.max(prev - 1, 0)
decrementBelowZero(prev) == prev - 1

decrement(prev) == IF prev - 1 > 0 THEN prev - 1 ELSE 0

\* the setInterval callback of room r.  Node gives no order between this callback
\* and a setTimeout callback that fall due together, so the two are separate steps.
Tick(r) ==
  /\ r \in DOMAIN rooms
  /\ intervals[r] > 0
  /\ calls' = <<>>
  /\ LET room == rooms[r]
         prev == room.timerState.remaining
         next == decrement(prev)
     IN IF ~room.timerState.running
        THEN LET timer == stopServerTimerForRoom(room, intervals[r])
             IN /\ rooms' = [rooms EXCEPT ![r] = timer.room]
                /\ intervals' = [intervals EXCEPT ![r] = timer.live]
                /\ last' = [op |-> "tick", room |-> r, applied |-> FALSE, emits |-> <<>>]
                /\ UNCHANGED <<disk, sockets, timeouts>>
        ELSE /\ prev <= MaxRemaining
             /\ next = 0 => timeouts[r] < MaxPending
             /\ rooms' = [rooms EXCEPT ![r] =
                  Touch([room EXCEPT !.timerState.remaining = next,
                                     !.zeroArmed = @ \/ next = 0])]
             /\ timeouts' =
                  IF next = 0 THEN [timeouts EXCEPT ![r] = @ + 1] ELSE timeouts
             /\ last' = [op |-> "tick", room |-> r, applied |-> TRUE,
                         emits |-> Broadcast({"timer-sync"}, r), prev |-> prev]
             /\ UNCHANGED <<disk, sockets, intervals>>

\* the room after the rotation of the climb branch, before phase and remaining change
rotateAtClimbEnd(room) ==
  WriteCategories(room, advanceNonHeldClimbers(room.timerState.categories))

zeroCrossingNeverLeavesTransition(room) ==
  LET ts == room.timerState
      rotated == rotateAtClimbEnd(room)
  IN IF ts.phase = "climb"
     THEN IF totalTrans(ts) > 0
          THEN [rotated EXCEPT !.timerState.phase = "transition",
                               !.timerState.remaining = totalTrans(ts),
                               !.zeroArmed = FALSE]
          ELSE [rotated EXCEPT !.timerState.phase = "climb",
                               !.timerState.remaining = totalClimb(ts),
                               !.zeroArmed = FALSE]
     ELSE IF ts.phase = "transition"
     THEN [room EXCEPT !.timerState.remaining = totalTrans(ts), !.zeroArmed = FALSE]
     ELSE room

zeroCrossingAlwaysTransitions(room) ==
  LET ts == room.timerState
      rotated == rotateAtClimbEnd(room)
  IN IF ts.phase = "climb"
     THEN [rotated EXCEPT !.timerState.phase = "transition",
                          !.timerState.remaining = totalTrans(ts), !.zeroArmed = FALSE]
     ELSE IF ts.phase = "transition"
     THEN [room EXCEPT !.timerState.phase = "climb",
                       !.timerState.remaining = totalClimb(ts), !.zeroArmed = FALSE]
     ELSE room

zeroCrossingRotatesInEveryPhase(room) ==
  LET ts == room.timerState
      rotated == rotateAtClimbEnd(room)
  IN IF ts.phase = "climb" /\ totalTrans(ts) > 0
     THEN [rotated EXCEPT !.timerState.phase = "transition",
                          !.timerState.remaining = totalTrans(ts), !.zeroArmed = FALSE]
     ELSE IF ts.phase \in {"climb", "transition"}
     THEN [rotated EXCEPT !.timerState.phase = "climb",
                          !.timerState.remaining = totalClimb(ts), !.zeroArmed = FALSE]
     ELSE room

\* the room after the setTimeout callback armed when the countdown hit 0
zeroCrossing(room) ==
  LET ts == room.timerState
      rotated == rotateAtClimbEnd(room)
  IN IF ts.phase = "climb"
     THEN IF totalTrans(ts) > 0
          THEN [rotated EXCEPT !.timerState.phase = "transition",
                               !.timerState.remaining = totalTrans(ts),
                               !.zeroArmed = FALSE]
          ELSE [rotated EXCEPT !.timerState.phase = "climb",
                               !.timerState.remaining = totalClimb(ts),
                               !.zeroArmed = FALSE]
     ELSE IF ts.phase = "transition"
     THEN [room EXCEPT !.timerState.phase = "climb",
                       !.timerState.remaining = totalClimb(ts),
                       !.zeroArmed = FALSE]
     ELSE room

\* one pending callback of room id r runs
ZeroCrossing(r) ==
  /\ timeouts[r] > 0
  /\ timeouts' = [timeouts EXCEPT ![r] = @ - 1]
  /\ last' = [op |-> "zero-crossing", room |-> r, applied |-> r \in DOMAIN rooms,
              emits |-> IF r \notin DOMAIN rooms THEN <<>>
                        ELSE IF rooms[r].timerState.phase = "climb"
                        THEN Broadcast({"categories-sync", "timer-sync"}, r)
                        ELSE Broadcast({"timer-sync"}, r),
              from |-> IF r \in DOMAIN rooms THEN rooms[r].timerState.phase ELSE "none",
              sent |-> IF r \notin DOMAIN rooms THEN <<>>
                       ELSE LET ts == rooms[r].timerState
                                after == zeroCrossing(rooms[r]).timerState
                                timerSync == [event |-> "timer-sync", phase |-> after.phase,
                                              remaining |-> after.remaining,
                                              categories |-> after.categories]
                            IN IF ts.phase = "climb"
                               THEN <<[event |-> "categories-sync", phase |-> ts.phase,
                                       remaining |-> ts.remaining,
                                       categories |->
                                          rotateAtClimbEnd(rooms[r]).timerState.categories],
                                      timerSync>>
                               ELSE <<timerSync>>]
  /\ IF r \notin DOMAIN rooms
     THEN /\ calls' = <<>>
          /\ UNCHANGED <<rooms, disk, sockets, intervals>>
     ELSE /\ rooms' = [rooms EXCEPT ![r] = zeroCrossing(rooms[r])]
          /\ calls' = IF rooms[r].timerState.phase = "climb"
                      THEN ForEachCalls(rooms[r].timerState.categories, 0)
                      ELSE <<>>
          /\ disk' = IF rooms[r].timerState.phase = "climb"
                     THEN saveRoomData(disk, r, rotateAtClimbEnd(rooms[r]))
                     ELSE disk
          /\ UNCHANGED <<sockets, intervals>>

----------------------------------------------------------------------------
(* Connections and the room API *)

\* io.on('connection'): socket s connects with ?room=r (already sanitized)
Connect(s, r) ==
  /\ s \notin DOMAIN sockets
  /\ sockets' = (s :> r) @@ sockets
  /\ rooms' = [getOrCreateRoom(rooms, disk, r) EXCEPT
                 ![r] = Touch([@ EXCEPT !.connectedClients = @ + 1])]
  /\ calls' = <<>>
  /\ last' = [op |-> "connection", room |-> r, applied |-> TRUE,
              emits |-> [event \in {"timer-sync", "config-sync", "rounds-sync",
                                    "categories-sync", "room-info"} |-> {s}]
                        @@ ("client-count" :> RoomSockets(r) \cup {s})]
  /\ UNCHANGED <<disk, intervals, timeouts>>

Disconnect(s) ==
  /\ s \in DOMAIN sockets
  /\ sockets' = Without(sockets, s)
  /\ rooms' = IF sockets[s] \in DOMAIN rooms
              THEN [rooms EXCEPT ![sockets[s]].connectedClients = @ - 1]
              ELSE rooms
  /\ calls' = <<>>
  /\ last' = [op |-> "disconnect", room |-> sockets[s],
              applied |-> sockets[s] \in DOMAIN rooms,
              emits |-> IF sockets[s] \in DOMAIN rooms
                        THEN ("client-count" :> RoomSockets(sockets[s]) \ {s})
                        ELSE <<>>]
  /\ UNCHANGED <<disk, intervals, timeouts>>

\* POST /api/rooms
CreateRoomApi(r) ==
  IF r \in DOMAIN rooms THEN Dropped("create-room", r)
  ELSE /\ rooms' = getOrCreateRoom(rooms, disk, r)
       /\ calls' = <<>>
       /\ last' = [op |-> "create-room", room |-> r, applied |-> TRUE, emits |-> <<>>]
       /\ UNCHANGED <<disk, sockets, intervals, timeouts>>

deleteRoomEvenTheLast(rs, roomId) == roomId \in DOMAIN rs

\* what deleteRoom returns: it removes the room iff this is TRUE
deleteRoom(rs, roomId) == ~(Cardinality(DOMAIN rs) <= 1) /\ roomId \in DOMAIN rs

\* DELETE /api/rooms/:roomId
DeleteRoomApi(r) ==
  IF r \notin DOMAIN rooms THEN Dropped("delete-room", r)
  ELSE IF ~deleteRoom(rooms, r)
  THEN /\ last' = [op |-> "delete-room", room |-> r, applied |-> FALSE,
                   emits |-> Broadcast({"room-deleted"}, r)]
       /\ calls' = <<>>
       /\ UNCHANGED <<rooms, disk, sockets, intervals, timeouts>>
  ELSE /\ rooms' = Without(rooms, r)
       /\ intervals' = [intervals EXCEPT ![r] = IF rooms[r].timerInterval THEN @ - 1 ELSE @]
       /\ disk' = Without(disk, r)
       /\ calls' = <<>>
       /\ last' = [op |-> "delete-room", room |-> r, applied |-> TRUE,
                   emits |-> Broadcast({"room-deleted"}, r)]
       /\ UNCHANGED <<sockets, timeouts>>

\* more than ROOM_CLEANUP_THRESHOLD_MS go by without any activity: now minus the
\* lastActivity of every registered room exceeds the threshold
TimePasses ==
  /\ \E r \in DOMAIN rooms : rooms[r].lastActivity = "recent"
  /\ rooms' = [r \in DOMAIN rooms |-> [rooms[r] EXCEPT !.lastActivity = "old"]]
  /\ calls' = <<>>
  /\ last' = [op |-> "time-passes", room |-> DEFAULT_ROOM, applied |-> TRUE,
              emits |-> <<>>]
  /\ UNCHANGED <<disk, sockets, intervals, timeouts>>

\* roomsToDelete: the rooms the first loop of cleanupInactiveRooms collects
roomsToDelete(rs) ==
  {r \in DOMAIN rs : /\ r # DEFAULT_ROOM
                      /\ ~rs[r].timerState.running
                      /\ ~(rs[r].connectedClients > 0)
                      /\ rs[r].lastActivity = "old"}

\* the orders in which a Map can hand out the collected room ids
Orders(S) ==
  {order \in [1..Cardinality(S) -> S] :
     \A i, j \in 1..Cardinality(S) : i # j => order[i] # order[j]}

\* registry, data files and live intervals after deleteRoom(order[k]), ..., in turn
RECURSIVE deleteEach(_, _, _)
deleteEach(st, order, k) ==
  IF k > Len(order) THEN st
  ELSE LET r == order[k]
       IN IF ~deleteRoom(st.rooms, r) THEN deleteEach(st, order, k + 1)
          ELSE deleteEach(
                 [rooms |-> Without(st.rooms, r),
                  disk |-> Without(st.disk, r),
                  intervals |-> [st.intervals EXCEPT
                     ![r] = IF st.rooms[r].timerInterval THEN @ - 1 ELSE @]],
                 order, k + 1)

\* the setInterval callback cleanupInactiveRooms
Cleanup ==
  \E order \in Orders(roomsToDelete(rooms)) :
    LET swept == deleteEach([rooms |-> rooms, disk |-> disk, intervals |-> intervals],
                            order, 1)
    IN /\ rooms' = swept.rooms
       /\ disk' = swept.disk
       /\ intervals' = swept.intervals
       /\ calls' = <<>>
       /\ last' = [op |-> "cleanup", room |-> DEFAULT_ROOM,
                   applied |-> swept.rooms # rooms, emits |-> <<>>,
                   roomsToDelete |-> roomsToDelete(rooms)]
       /\ UNCHANGED <<sockets, timeouts>>

----------------------------------------------------------------------------
(* Category management, rounds and import *)

ToSeq(a) == [i \in 1..ALen(a) |-> a[i - 1]]

\* ts.categories.filter(c => c.id !== categoryId)
WithoutCategory(cats, categoryId) ==
  LET keep(c) == c.id # categoryId
  IN Arr(SelectSeq(ToSeq(cats), keep))

CategoryUpdate(s, category) ==
  /\ s \in DOMAIN sockets
  /\ LET r == sockets[s]
     IN IF r \notin DOMAIN rooms THEN Dropped("category-update", r)
        ELSE LET room == rooms[r]
                 ts == room.timerState
                 existingIndex == FindCategory(ts.categories, category.id)
                 cats == IF existingIndex >= 0
                         THEN [ts.categories EXCEPT ![existingIndex] = category]
                         ELSE APush(ts.categories, category)
                 noRound == ALen(ts.rounds) = 0
                 withRound == [room EXCEPT
                    !.timerState.categories = cats,
                    !.timerState.rounds =
                       IF noRound
                       THEN APush(@, [name |-> "Round 1", categories |-> <<>>])
                       ELSE @,
                    !.timerState.activeRoundIndex = IF noRound THEN 0 ELSE @]
             IN IF withRound.timerState.activeRoundIndex
                     \in DOMAIN withRound.timerState.rounds
                THEN Applied("category-update", r, {"categories-sync"},
                             Touch(SyncToActiveRound(withRound)), <<>>, TRUE)
                ELSE \* rounds[activeRoundIndex] is undefined: TypeError, caught
                     \* before the broadcast
                     Applied("category-update", r, {}, withRound, <<>>, FALSE)

CategoryDelete(s, categoryId) ==
  /\ s \in DOMAIN sockets
  /\ LET r == sockets[s]
     IN IF r \notin DOMAIN rooms THEN Dropped("category-delete", r)
        ELSE LET room == rooms[r]
                 ts == room.timerState
                 cats == WithoutCategory(ts.categories, categoryId)
                 filtered == [room EXCEPT !.timerState.categories = cats]
             IN IF ~(ALen(cats) < ALen(ts.categories))
                THEN Dropped("category-delete", r)
                ELSE IF ALen(ts.rounds) > 0
                THEN IF ts.activeRoundIndex \in DOMAIN ts.rounds
                     THEN Applied("category-delete", r, {"categories-sync"},
                                  Touch(SyncToActiveRound(filtered)), <<>>, TRUE)
                     ELSE Applied("category-delete", r, {},
                                  [filtered EXCEPT !.sharedCategories = FALSE],
                                  <<>>, FALSE)
                ELSE Applied("category-delete", r, {"categories-sync"},
                             Touch([filtered EXCEPT !.sharedCategories = FALSE]),
                             <<>>, TRUE)

\* parsed is what parseInt made of the argument: [nan |-> isNaN(newIndex), n |-> newIndex]
SwitchRound(s, parsed) ==
  /\ s \in DOMAIN sockets
  /\ LET r == sockets[s]
     IN IF r \notin DOMAIN rooms THEN Dropped("switch-round", r)
        ELSE LET room == rooms[r]
                 ts == room.timerState
                 roundIndex == parsed.n
             IN IF parsed.nan THEN Dropped("switch-round", r)
                ELSE IF roundIndex < 0 \/ roundIndex >= ALen(ts.rounds)
                THEN Dropped("switch-round", r)
                ELSE LET fresh == [k \in DOMAIN ts.rounds[roundIndex].categories |->
                                     resetCategory(ts.rounds[roundIndex].categories[k])]
                     IN AppliedWith("switch-round", r, {"rounds-sync", "categories-sync"},
                          Touch([room EXCEPT
                             !.timerState.activeRoundIndex = roundIndex,
                             !.timerState.rounds = [@ EXCEPT ![roundIndex].categories = fresh],
                             !.timerState.categories = fresh,
                             !.sharedCategories = TRUE]),
                          <<>>, TRUE,
                          [newIndex |-> roundIndex, newRound |-> ts.rounds[roundIndex]])

\* h && String(h).trim(): the cell holds text
NonEmpty(cell) == cell # ""

\* the trimmed non-empty cells of column col (0-based) below the header row
columnClimbers(data, col) ==
  LET cell(row) == IF col + 1 \in DOMAIN data[row] THEN data[row][col + 1] ELSE ""
  IN Arr(SelectSeq([k \in 1..(Len(data) - 1) |-> cell(k + 1)], NonEmpty))

RoundName(n) == IF n = 1 THEN "Round 1" ELSE IF n = 2 THEN "Round 2" ELSE "Round 3"

\* the loop over workbook.SheetNames from sheet k on; each sheet is its rows
RECURSIVE parseSheets(_, _, _, _)

parseSheetsKeepsEarlierSheets(workbook, k, newRounds, globalCategoryId) ==
  IF k > Len(workbook)
  THEN [rejected |-> ALen(newRounds) = 0, rounds |-> newRounds]
  ELSE LET data == workbook[k]
           headers == SelectSeq(data[1], NonEmpty)
       IN IF Len(data) < 2
          THEN parseSheets(workbook, k + 1, newRounds, globalCategoryId)
          ELSE IF Len(headers) = 0
          THEN parseSheets(workbook, k + 1, newRounds, globalCategoryId)
          ELSE IF Len(headers) > 4
          THEN [rejected |-> ALen(newRounds) = 0, rounds |-> newRounds]
          ELSE parseSheets(workbook, k + 1,
                 APush(newRounds,
                   [name |-> RoundName(ALen(newRounds) + 1),
                    categories |-> [c \in 0..(Len(headers) - 1) |->
                       NewCategory(globalCategoryId + c, headers[c + 1],
                                   columnClimbers(data, c))]]),
                 globalCategoryId + Len(headers))

parseSheets(workbook, k, newRounds, globalCategoryId) ==
  IF k > Len(workbook)
  THEN [rejected |-> ALen(newRounds) = 0, rounds |-> newRounds]
  ELSE LET data == workbook[k]
           headers == SelectSeq(data[1], NonEmpty)
       IN IF Len(data) < 2
          THEN parseSheets(workbook, k + 1, newRounds, globalCategoryId)
          ELSE IF Len(headers) = 0
          THEN parseSheets(workbook, k + 1, newRounds, globalCategoryId)
          ELSE IF Len(headers) > 4
          THEN [rejected |-> TRUE, rounds |-> newRounds]
          ELSE parseSheets(workbook, k + 1,
                 APush(newRounds,
                   [name |-> RoundName(ALen(newRounds) + 1),
                    categories |-> [c \in 0..(Len(headers) - 1) |->
                       NewCategory(globalCategoryId + c, headers[c + 1],
                                   columnClimbers(data, c))]]),
                 globalCategoryId + Len(headers))

\* POST /api/import-excel?room=r
ImportExcel(r, workbook) ==
  LET created == getOrCreateRoom(rooms, disk, r)
      parsed == parseSheets(workbook, 1, <<>>, 1)
      room == Touch([created[r] EXCEPT
                !.timerState.rounds = parsed.rounds,
                !.timerState.activeRoundIndex = 0,
                !.timerState.categories = parsed.rounds[0].categories,
                !.sharedCategories = TRUE])
  IN /\ calls' = <<>>
     /\ last' = [op |-> "import-excel", room |-> r, applied |-> ~parsed.rejected,
                 emits |-> IF parsed.rejected THEN <<>>
                           ELSE Broadcast({"rounds-sync", "categories-sync"}, r),
                 newRounds |-> ALen(parsed.rounds)]
     /\ UNCHANGED <<sockets, intervals, timeouts>>
     /\ IF parsed.rejected
        THEN rooms' = created /\ disk' = disk
        ELSE /\ rooms' = [created EXCEPT ![r] = room]
             /\ disk' = saveRoomData(disk, r, room)

----------------------------------------------------------------------------
(* The clock of one room with a roster: a server restarted from a saved import, *)
(* one operator connected                                                      *)

Phases == {"stopped", "climb", "transition"}

\* timer-update payloads of the operator page: start/pause/resume, reset, skip phase,
\* forced phase or remaining
ClockPatches ==
  {[running |-> b] : b \in BOOLEAN}
  \cup {[phase |-> p, running |-> b, remaining |-> n] :
          p \in Phases, b \in BOOLEAN, n \in {0, MaxRemaining}}
  \cup {[remaining |-> 1]}

\* config-update payloads: short durations, with and without a transition
Configs ==
  {[climbMin |-> 0, climbSec |-> 2, transMin |-> 0, transSec |-> 1, showNames |-> FALSE],
   [climbMin |-> 0, climbSec |-> 1, transMin |-> 0, transSec |-> 0]}

InitClock ==
  /\ disk = (DEFAULT_ROOM :> SavedImport(Arr(<<"A", "B", "C">>)))
  /\ rooms = (DEFAULT_ROOM :>
                [loadedRoom(disk, DEFAULT_ROOM) EXCEPT !.connectedClients = 1])
  /\ sockets = ("s1" :> DEFAULT_ROOM)
  /\ intervals = [r \in RoomIds |-> 0]
  /\ timeouts = [r \in RoomIds |-> 0]
  /\ calls = <<>>
  /\ last = [op |-> "listen", room |-> DEFAULT_ROOM, applied |-> TRUE, emits |-> <<>>]

NextClock ==
  \/ \E s \in SocketIds, newState \in ClockPatches : TimerUpdate(s, newState)
  \/ \E s \in SocketIds, config \in Configs : ConfigUpdate(s, config)
  \/ \E r \in RoomIds : Tick(r)
  \/ \E r \in RoomIds : ZeroCrossing(r)

SpecClock == InitClock /\ [][NextClock]_vars

----------------------------------------------------------------------------
(* A clock left running: the operator has set positive durations and started a *)
(* phase, and sends nothing more.  Node runs a due timer callback eventually,  *)
(* hence the weak fairness of the tick and of the delayed handler.             *)

InitCycle ==
  /\ \E climbers \in RotationRosters :
       disk = (DEFAULT_ROOM :> SavedImport(climbers))
  /\ \E climbSec \in 1..MaxRemaining, transSec \in 1..MaxRemaining,
        phase \in {"climb", "transition"} :
       rooms = (DEFAULT_ROOM :>
         [loadedRoom(disk, DEFAULT_ROOM) EXCEPT
            !.connectedClients = 1,
            !.timerInterval = TRUE,
            !.timerState.climbMin = 0, !.timerState.climbSec = climbSec,
            !.timerState.transMin = 0, !.timerState.transSec = transSec,
            !.timerState.phase = phase, !.timerState.running = TRUE,
            !.timerState.remaining = IF phase = "climb" THEN climbSec ELSE transSec])
  /\ sockets = ("s1" :> DEFAULT_ROOM)
  /\ intervals = [r \in RoomIds |-> IF r = DEFAULT_ROOM THEN 1 ELSE 0]
  /\ timeouts = [r \in RoomIds |-> 0]
  /\ calls = <<>>
  /\ last = [op |-> "timer-update", room |-> DEFAULT_ROOM, applied |-> TRUE,
             emits |-> ("timer-sync" :> {"s1"}),
             patch |-> [running |-> TRUE], wasRunning |-> FALSE]

NextCycle ==
  \/ \E r \in RoomIds : Tick(r)
  \/ \E r \in RoomIds : ZeroCrossing(r)

\* a pending callback of room id r runs: the step ZeroCrossing(r), told by the
\* count of pending callbacks alone
CallbackRuns(r) ==
  /\ timeouts[r] > 0
  /\ timeouts' = [timeouts EXCEPT ![r] = @ - 1]

SpecCycle ==
  /\ InitCycle /\ [][NextCycle]_vars
  /\ WF_vars(\E r \in RoomIds : Tick(r))
  /\ WF_timeouts(\E r \in RoomIds : CallbackRuns(r))

----------------------------------------------------------------------------
(* The room registry: two room ids, two sockets, the room API.  Clocks are      *)
(* started and paused here; what a running clock does is in SpecClock.         *)

RegistryPatches == {[running |-> TRUE], [running |-> FALSE]}

\* server start: no data files, migrateOldCategories has nothing to migrate, the
\* default room is created
InitRegistry ==
  /\ disk = <<>>
  /\ rooms = getOrCreateRoom(<<>>, disk, DEFAULT_ROOM)
  /\ sockets = <<>>
  /\ intervals = [r \in RoomIds |-> 0]
  /\ timeouts = [r \in RoomIds |-> 0]
  /\ calls = <<>>
  /\ last = [op |-> "listen", room |-> DEFAULT_ROOM, applied |-> TRUE, emits |-> <<>>]

NextRegistry ==
  \/ \E s \in SocketIds, r \in RoomIds : Connect(s, r)
  \/ \E s \in SocketIds : Disconnect(s)
  \/ \E r \in RoomIds : CreateRoomApi(r)
  \/ \E r \in RoomIds : DeleteRoomApi(r)
  \/ \E s \in SocketIds, newState \in RegistryPatches : TimerUpdate(s, newState)
  \/ TimePasses
  \/ Cleanup

SpecRegistry == InitRegistry /\ [][NextRegistry]_vars

----------------------------------------------------------------------------
(* The categories of one room: every handler that reads or writes them *)

\* what a client can send as timer-update: a clock field, or its copy of the state
\* with the categories it knows
StatePatches == {[phase |-> "climb"], [categories |-> <<>>]}

CategoryPayloads == {NewCategory(2, "Youth", Arr(<<"B">>))}

\* a workbook is the list of its sheets, a sheet the list of its rows
Workbooks ==
  {<< <<<<"Open">>, <<"A">>, <<"B">>>>, <<<<"Youth">>, <<"C">>>> >>,
   << <<<<"Open">>, <<"A">>>>,
      <<<<"U11", "U13", "U15", "U17", "U19">>, <<"A", "B", "C", "D", "E">>>> >>,
   << <<<<"Open">>>> >>,
   << <<<<"Open">>, <<"A">>, <<"B">>>>, <<<<"Youth">>, <<"C">>>>,
      <<<<"U11", "U13", "U15", "U17", "U19">>>> >>}

RoundIndexArgs == {[nan |-> FALSE, n |-> 0], [nan |-> FALSE, n |-> 1],
                   [nan |-> FALSE, n |-> 5], [nan |-> TRUE, n |-> 0]}

\* server start as above, and the operator page connected to the default room
InitCategories ==
  /\ disk = <<>>
  /\ rooms = [getOrCreateRoom(<<>>, disk, DEFAULT_ROOM) EXCEPT
                ![DEFAULT_ROOM].connectedClients = 1]
  /\ sockets = ("s1" :> DEFAULT_ROOM)
  /\ intervals = [r \in RoomIds |-> 0]
  /\ timeouts = [r \in RoomIds |-> 0]
  /\ calls = <<>>
  /\ last = [op |-> "listen", room |-> DEFAULT_ROOM, applied |-> TRUE, emits |-> <<>>]

NextCategories ==
  \/ \E workbook \in Workbooks : ImportExcel(DEFAULT_ROOM, workbook)
  \/ \E s \in SocketIds, newState \in StatePatches : TimerUpdate(s, newState)
  \/ \E s \in SocketIds, config \in Configs : ConfigUpdate(s, config)
  \/ \E s \in SocketIds, category \in CategoryPayloads : CategoryUpdate(s, category)
  \/ \E s \in SocketIds, c \in CategoryIdArgs : CategoryDelete(s, c)
  \/ \E s \in SocketIds, c \in CategoryIdArgs : AdvanceClimber(s, c, 1)
  \/ \E s \in SocketIds : AdvanceBoulderCmd(s, 1)
  \/ \E s \in SocketIds, c \in CategoryIdArgs : AdvanceCategory(s, c)
  \/ \E s \in SocketIds : AdvanceAllClimbers(s)
  \/ \E s \in SocketIds, c \in CategoryIdArgs : SkipBoulderClimber(s, c, 1)
  \/ \E s \in SocketIds, c \in CategoryIdArgs : ResetCategoryProgress(s, c)
  \/ \E s \in SocketIds, parsed \in RoundIndexArgs : SwitchRound(s, parsed)

SpecCategories == InitCategories /\ [][NextCategories]_vars

----------------------------------------------------------------------------
(* Commands that name a category, a boulder or a round, with ids and indexes    *)
(* that exist and that do not, on a room restarted from a saved import         *)

\* boulder ids a client names here: the first boulder and one that does not exist
NamedBoulderArgs == {1, 9}

\* parseInt results a client can cause: the active round, indexes past the last
\* round, a negative index, and NaN
NamedRoundArgs == RoundIndexArgs \cup {[nan |-> FALSE, n |-> -1]}

NextCommands ==
  \E s \in SocketIds :
    \/ \E c \in CategoryIdArgs, b \in NamedBoulderArgs : AdvanceClimber(s, c, b)
    \/ \E c \in CategoryIdArgs, b \in NamedBoulderArgs : SkipBoulderClimber(s, c, b)
    \/ \E c \in CategoryIdArgs : ResetCategoryProgress(s, c)
    \/ \E c \in CategoryIdArgs : AdvanceCategory(s, c)
    \/ \E c \in CategoryIdArgs : CategoryDelete(s, c)
    \/ \E parsed \in NamedRoundArgs : SwitchRound(s, parsed)

SpecCommands == InitRotation /\ [][NextCommands]_vars

----------------------------------------------------------------------------
(* recordClimberProgress applied to the imported category with any climber of   *)
(* its roster and any boulder id, in any order                                 *)

BoulderIds == {1, 2, 3, 4}

\* recordClimberProgress(category, climberName, boulderId) on the first category
Record(r, climberName, boulderId) ==
  LET category == rooms[r].timerState.categories[0]
  IN /\ rooms' = [rooms EXCEPT ![r] =
          WriteCategories(@, [@.timerState.categories EXCEPT
             ![0] = recordClimberProgress(category, climberName, boulderId)])]
     /\ last' = [op |-> "record", room |-> r, applied |-> TRUE, emits |-> <<>>,
                 climberName |-> climberName, boulderId |-> boulderId,
                 again |-> Includes(ProgressOf(category, climberName), boulderId)]
     /\ calls' = <<>>
     /\ UNCHANGED <<disk, sockets, intervals, timeouts>>

\* the names recordClimberProgress is called with: boulder.climbers[index]
ClimbersOf(category) ==
  {category.boulders[0].climbers[j] : j \in DOMAIN category.boulders[0].climbers}

NextProgress ==
  \E climberName \in ClimbersOf(rooms[DEFAULT_ROOM].timerState.categories[0]),
     boulderId \in BoulderIds :
    Record(DEFAULT_ROOM, climberName, boulderId)

SpecProgress == InitRotation /\ [][NextProgress]_vars

----------------------------------------------------------------------------
(* Two rooms side by side, each restarted from its own saved import with one    *)
(* operator connected and a one-second climb phase without transition: clocks  *)
(* are started and paused and categories advanced in either room               *)

InitRooms ==
  /\ disk = [r \in RoomIds |-> SavedImport(Arr(<<"A", "B">>))]
  /\ rooms = [r \in RoomIds |->
       [loadedRoom(disk, r) EXCEPT
          !.connectedClients = 1,
          !.timerState.climbMin = 0, !.timerState.climbSec = 1,
          !.timerState.transMin = 0, !.timerState.transSec = 0,
          !.timerState.phase = "climb", !.timerState.remaining = 1]]
  /\ sockets = ("s1" :> DEFAULT_ROOM) @@ ("s2" :> "gym")
  /\ intervals = [r \in RoomIds |-> 0]
  /\ timeouts = [r \in RoomIds |-> 0]
  /\ calls = <<>>
  /\ last = [op |-> "listen", room |-> DEFAULT_ROOM, applied |-> TRUE, emits |-> <<>>]

NextRooms ==
  \/ \E s \in SocketIds, newState \in RegistryPatches : TimerUpdate(s, newState)
  \/ \E s \in SocketIds : AdvanceCategory(s, 1)
  \/ \E r \in RoomIds : Tick(r)
  \/ \E r \in RoomIds : ZeroCrossing(r)

SpecRooms == InitRooms /\ [][NextRooms]_vars

----------------------------------------------------------------------------
(* Saving and restarting: the default room is filled by an import, rotated and  *)
(* switched between rounds while its clock is started and patched, and the     *)
(* process is stopped and started again over the data files                    *)

\* the process ends and starts again: the registry, sockets and timers are gone,
\* the data files stay, and startup runs getOrCreateRoom(DEFAULT_ROOM)
Restart ==
  /\ rooms' = getOrCreateRoom(<<>>, disk, DEFAULT_ROOM)
  /\ sockets' = <<>>
  /\ intervals' = [r \in RoomIds |-> 0]
  /\ timeouts' = [r \in RoomIds |-> 0]
  /\ calls' = <<>>
  /\ last' = [op |-> "restart", room |-> DEFAULT_ROOM, applied |-> TRUE, emits |-> <<>>,
              before |-> IF DEFAULT_ROOM \in DOMAIN rooms
                         THEN [rooms[DEFAULT_ROOM] EXCEPT
                                 !.timerState.rounds = <<>>,
                                 !.timerState.categories = <<>>]
                         ELSE createRoomState]
  /\ UNCHANGED disk

PersistPatches == {[running |-> TRUE], [phase |-> "transition", remaining |-> 1]}

PersistWorkbooks == {<< <<<<"Open">>, <<"A">>, <<"B">>>>, <<<<"Youth">>, <<"C">>>> >>}

PersistRoundArgs == {[nan |-> FALSE, n |-> 0], [nan |-> FALSE, n |-> 1]}

NextPersist ==
  \/ \E workbook \in PersistWorkbooks : ImportExcel(DEFAULT_ROOM, workbook)
  \/ \E s \in SocketIds : Connect(s, DEFAULT_ROOM)
  \/ \E s \in SocketIds, newState \in PersistPatches : TimerUpdate(s, newState)
  \/ \E s \in SocketIds : AdvanceCategory(s, 1)
  \/ \E s \in SocketIds, parsed \in PersistRoundArgs : SwitchRound(s, parsed)
  \/ Restart

SpecPersist == InitRegistry /\ [][NextPersist]_vars

----------------------------------------------------------------------------
(* A running climb phase over a saved import of two rounds, the first with two  *)
(* categories: only the timer callbacks act                                    *)

SavedTwoRounds ==
  [rounds |-> Arr(<<[name |-> "Round 1",
                     categories |-> Arr(<<NewCategory(1, "Open", Arr(<<"A", "B", "C">>)),
                                          NewCategory(2, "Youth", Arr(<<"D">>))>>)],
                    [name |-> "Round 2",
                     categories |-> Arr(<<NewCategory(3, "Final", Arr(<<"A", "D">>))>>)]>>),
   activeRoundIndex |-> 0]

InitClimbEnd ==
  /\ disk = (DEFAULT_ROOM :> SavedTwoRounds)
  /\ \E climbSec \in 1..MaxRemaining, transSec \in 0..1 :
       rooms = (DEFAULT_ROOM :>
         [loadedRoom(disk, DEFAULT_ROOM) EXCEPT
            !.connectedClients = 1,
            !.timerInterval = TRUE,
            !.timerState.climbMin = 0, !.timerState.climbSec = climbSec,
            !.timerState.transMin = 0, !.timerState.transSec = transSec,
            !.timerState.phase = "climb", !.timerState.running = TRUE,
            !.timerState.remaining = climbSec])
  /\ sockets = ("s1" :> DEFAULT_ROOM)
  /\ intervals = [r \in RoomIds |-> IF r = DEFAULT_ROOM THEN 1 ELSE 0]
  /\ timeouts = [r \in RoomIds |-> 0]
  /\ calls = <<>>
  /\ last = [op |-> "timer-update", room |-> DEFAULT_ROOM, applied |-> TRUE,
             emits |-> ("timer-sync" :> {"s1"}),
             patch |-> [running |-> TRUE], wasRunning |-> FALSE]

SpecClimbEnd == InitClimbEnd /\ [][NextCycle]_vars

----------------------------------------------------------------------------
(* Clocks of two rooms with viewers coming and going: patches that start,      *)
(* pause and reload a countdown, ticks, delayed handlers, connects, disconnects *)

TickingPatches ==
  {[running |-> TRUE], [running |-> FALSE],
   [phase |-> "climb", remaining |-> 1]}

NextTicking ==
  \/ \E s \in SocketIds, r \in RoomIds : Connect(s, r)
  \/ \E s \in SocketIds : Disconnect(s)
  \/ \E s \in SocketIds, newState \in TickingPatches : TimerUpdate(s, newState)
  \/ \E r \in RoomIds : Tick(r)
  \/ \E r \in RoomIds : ZeroCrossing(r)

SpecTicking == InitRegistry /\ [][NextTicking]_vars

----------------------------------------------------------------------------
(* Two rounds under the rotation commands, round switches and the running clock *)

SavedRoundPair ==
  [rounds |-> Arr(<<[name |-> "Round 1",
                     categories |-> Arr(<<NewCategory(1, "Open", Arr(<<"A", "B", "C">>))>>)],
                    [name |-> "Round 2",
                     categories |-> Arr(<<NewCategory(2, "Final", Arr(<<"A">>))>>)]>>),
   activeRoundIndex |-> 0]

\* the room loaded from the saved rounds, durations set to a 1 s climb phase
\* without transition, and the clock started
InitRounds ==
  /\ disk = (DEFAULT_ROOM :> SavedRoundPair)
  /\ rooms = (DEFAULT_ROOM :>
       [loadedRoom(disk, DEFAULT_ROOM) EXCEPT
          !.connectedClients = 1,
          !.timerInterval = TRUE,
          !.timerState.climbMin = 0, !.timerState.climbSec = 1,
          !.timerState.transMin = 0, !.timerState.transSec = 0,
          !.timerState.phase = "climb", !.timerState.running = TRUE,
          !.timerState.remaining = 1])
  /\ sockets = ("s1" :> DEFAULT_ROOM)
  /\ intervals = [r \in RoomIds |-> IF r = DEFAULT_ROOM THEN 1 ELSE 0]
  /\ timeouts = [r \in RoomIds |-> 0]
  /\ calls = <<>>
  /\ last = [op |-> "timer-update", room |-> DEFAULT_ROOM, applied |-> TRUE,
             emits |-> ("timer-sync" :> {"s1"}),
             patch |-> [running |-> TRUE], wasRunning |-> FALSE]

RoundCategoryIds == {1, 2}
RoundSwitchArgs == {[nan |-> FALSE, n |-> 0], [nan |-> FALSE, n |-> 1]}

NextRounds ==
  \/ \E s \in SocketIds, c \in RoundCategoryIds : AdvanceClimber(s, c, 1)
  \/ \E s \in SocketIds, c \in RoundCategoryIds : AdvanceCategory(s, c)
  \/ \E s \in SocketIds, c \in RoundCategoryIds : SkipBoulderClimber(s, c, 1)
  \/ \E s \in SocketIds, c \in RoundCategoryIds : ResetCategoryProgress(s, c)
  \/ \E s \in SocketIds, parsed \in RoundSwitchArgs : SwitchRound(s, parsed)
  \/ \E r \in RoomIds : Tick(r)
  \/ \E r \in RoomIds : ZeroCrossing(r)

SpecRounds == InitRounds /\ [][NextRounds]_vars

----------------------------------------------------------------------------
(* Vocabulary of the properties *)

\* the set of boulder ids in a climber's progress list
ProgressSet(category, name) ==
  {ProgressOf(category, name)[j] : j \in DOMAIN ProgressOf(category, name)}

Complete(category, name) == ProgressSet(category, name) = {1, 2, 3, 4}

Roster(boulder) == {boulder.climbers[j] : j \in DOMAIN boulder.climbers}

\* the climber who is up on a boulder: the one at the pointer of a started boulder
\* who still has boulders to climb ("" when nobody is)
ActiveClimber(category, i) ==
  LET b == category.boulders[i]
  IN IF b.hasStarted /\ b.currentClimberIndex \in DOMAIN b.climbers
        /\ ~Complete(category, b.climbers[b.currentClimberIndex])
     THEN b.climbers[b.currentClimberIndex]
     ELSE ""

BatchedPass(op) == op \in {"advance-category", "advance-all-climbers", "zero-crossing"}

\* the categories of room r, as the handlers and the viewers see them
Cats(rs, r) == rs[r].timerState.categories

----------------------------------------------------------------------------
(* C1 - Cascading gate: whenever a boulder i > 0 goes from hasStarted = FALSE   *)
(* to hasStarted = TRUE in a step, the step made an advanceBoulder invocation  *)
(* on that boulder which found boulder i-1 started with currentClimberIndex > 1 *)
(* at the moment boulder i was evaluated.                                      *)
StartsByGatedCall(r, k, i) ==
  \E n \in DOMAIN calls' :
    LET c == calls'[n]
    IN /\ c.cat = Cats(rooms, r)[k].id /\ c.i = i
       /\ ~c.before.boulders[i].hasStarted /\ c.after.boulders[i].hasStarted
       /\ c.before.boulders[i - 1].hasStarted
       /\ c.before.boulders[i - 1].currentClimberIndex > 1

C1_CascadingGate ==
  [][\A r \in DOMAIN rooms \cap DOMAIN rooms' :
       \A k \in DOMAIN Cats(rooms, r) \cap DOMAIN Cats(rooms', r) :
         \A i \in 1..3 :
           (~Cats(rooms, r)[k].boulders[i].hasStarted
              /\ Cats(rooms', r)[k].boulders[i].hasStarted)
           => StartsByGatedCall(r, k, i)]_vars

\* a later boulder has just been started by an advance
C1_Witness ==
  \E n \in DOMAIN calls :
    /\ calls[n].i > 0
    /\ ~calls[n].before.boulders[calls[n].i].hasStarted
    /\ calls[n].after.boulders[calls[n].i].hasStarted

(* C2 - Skip propagates exactly one hop per batched pass: a boulder k that has  *)
(* skipNext = TRUE before a category-wide pass has skipNext = FALSE after it,  *)
(* boulder k+1 (if any) has skipNext = TRUE after it, and boulder k's pointer  *)
(* is unchanged.                                                               *)
C2_SkipOneHopPerPass ==
  [][(BatchedPass(last'.op) /\ last'.applied) =>
       \A n \in DOMAIN Cats(rooms, last'.room) :
         \A k \in 0..3 :
           LET before == Cats(rooms, last'.room)[n].boulders
               after == Cats(rooms', last'.room)[n].boulders
           IN (before[k].skipNext
                 /\ \E m \in DOMAIN calls' : calls'[m].cat = Cats(rooms, last'.room)[n].id)
              => /\ ~after[k].skipNext
                 /\ (k < 3 => after[k + 1].skipNext)
                 /\ after[k].currentClimberIndex = before[k].currentClimberIndex]_vars

(* C5 - Completion exclusion: an advance that moves the pointer of a started    *)
(* boulder never leaves it on a climber whose progress set is {1,2,3,4},       *)
(* unless every climber of that boulder's roster is complete.                  *)
MovesPointer(c) ==
  /\ ALen(c.before.boulders[c.i].climbers) > 0
  /\ c.before.boulders[c.i].hasStarted
  /\ ~c.before.boulders[c.i].skipNext

C5_CompletionExclusion ==
  \A n \in DOMAIN calls :
    LET c == calls[n]
        b == c.after.boulders[c.i]
    IN (MovesPointer(c) /\ b.currentClimberIndex \in DOMAIN b.climbers
          /\ Complete(c.after, b.climbers[b.currentClimberIndex]))
       => \A name \in Roster(b) : Complete(c.after, name)

\* an advance stepped over a complete climber while others still had boulders left
C5_Witness ==
  \E n \in DOMAIN calls :
    LET c == calls[n]
        old == c.before.boulders[c.i]
        new == c.after.boulders[c.i]
    IN /\ MovesPointer(c)
       /\ new.currentClimberIndex # (old.currentClimberIndex + 1) % ALen(old.climbers)
       /\ \E name \in Roster(old) : Complete(c.before, name)
       /\ ~Complete(c.after, new.climbers[new.currentClimberIndex])

(* C7 - Rest guarantee: under consecutive batched passes from the initial       *)
(* state, the climber who is up on boulder i during one climb phase is not the *)
(* climber who is up on boulder i+1 during the next climb phase.               *)
C7_RestGuarantee ==
  [][(BatchedPass(last'.op) /\ last'.applied) =>
       \A n \in DOMAIN Cats(rooms, last'.room) :
         \A i \in 0..2 :
           ActiveClimber(Cats(rooms, last'.room)[n], i) # ""
           => ActiveClimber(Cats(rooms', last'.room)[n], i + 1)
                # ActiveClimber(Cats(rooms, last'.room)[n], i)]_vars

(* C3 - Zero-crossing fires once: a delayed handler changes a room's phase,     *)
(* remaining time or rosters only for a countdown that has reached 0 and has   *)
(* not been handled yet; so no countdown is handled twice, and no handler acts *)
(* on a countdown other than the one that armed it.                            *)
ClockAndRosters(room) ==
  <<room.timerState.phase, room.timerState.remaining,
    room.timerState.categories, room.timerState.rounds>>

C3_ZeroCrossingOncePerCountdown ==
  [][(last'.op = "zero-crossing" /\ last'.applied
        /\ ClockAndRosters(rooms'[last'.room]) # ClockAndRosters(rooms[last'.room]))
     => (rooms[last'.room].zeroArmed
           /\ rooms[last'.room].timerState.remaining = 0)]_vars

(* C4 - Pause preserves the clock: while running is FALSE, neither a tick nor   *)
(* a delayed zero-crossing handler changes the room's phase, remaining time or *)
(* rosters.                                                                    *)
C4_PausePreservesClock ==
  [][(last'.op \in {"tick", "zero-crossing"} /\ last'.room \in DOMAIN rooms
        /\ ~rooms[last'.room].timerState.running)
     => ClockAndRosters(rooms'[last'.room]) = ClockAndRosters(rooms[last'.room])]_vars

(* C6 - Categories-as-view: in every reachable state, a room that has at least  *)
(* one round has timerState.categories equal to the categories of the round at *)
(* activeRoundIndex.                                                           *)
C6_CategoriesAreView ==
  \A r \in DOMAIN rooms :
    LET ts == rooms[r].timerState
    IN ALen(ts.rounds) > 0
       => /\ ts.activeRoundIndex \in DOMAIN ts.rounds
          /\ ts.categories = ts.rounds[ts.activeRoundIndex].categories

(* C8 - Room deletion is refused for a room with viewers, with a running clock, *)
(* or the default room: after a delete request on such a room the room is      *)
(* still registered with the same state and the same timer, and the default    *)
(* room is registered after every step.                                        *)
Protected(r) ==
  \/ rooms[r].connectedClients > 0
  \/ rooms[r].timerState.running
  \/ r = DEFAULT_ROOM

C8_DeleteRefused ==
  [][/\ (last'.op = "delete-room" /\ last'.room \in DOMAIN rooms
           /\ Protected(last'.room))
        => (/\ last'.room \in DOMAIN rooms'
            /\ rooms'[last'.room] = rooms[last'.room]
            /\ intervals' = intervals)
     /\ DEFAULT_ROOM \in DOMAIN rooms']_vars

(* C9 - Manual clock controls never rotate: a timer-update that patches         *)
(* running, phase or remaining, a config-update, a tick and a zero-crossing    *)
(* out of a phase other than climb leave the categories (every pointer, start  *)
(* flag, skip flag and progress ledger) and the rounds unchanged.              *)
ClockControl(l) ==
  \/ l.op = "config-update"
  \/ l.op = "tick"
  \/ l.op = "timer-update" /\ l.applied
       /\ DOMAIN l.patch \subseteq {"running", "phase", "remaining"}
  \/ l.op = "zero-crossing" /\ l.from # "climb"

C9_ClockControlsNeverRotate ==
  [][(ClockControl(last') /\ last'.room \in DOMAIN rooms)
     => /\ Cats(rooms', last'.room) = Cats(rooms, last'.room)
        /\ rooms'[last'.room].timerState.rounds = rooms[last'.room].timerState.rounds]_vars

\* a transition phase has just ended by its zero-crossing on a room whose first
\* boulder is in use
C9_Witness ==
  /\ last.op = "zero-crossing" /\ last.applied /\ last.from = "transition"
  /\ rooms[last.room].timerState.phase = "climb"
  /\ \E k \in DOMAIN Cats(rooms, last.room) :
       Cats(rooms, last.room)[k].boulders[0].hasStarted

(* C10 - Single logical timer per room: a room id never has more than one live  *)
(* recurring tick, and it has one exactly when the room is running; a          *)
(* timer-update that sets running to the value it already has leaves the tick, *)
(* the pending handlers and the clock alone; a tick lowers remaining by at     *)
(* most 1.                                                                     *)
SingleTimer ==
  \A r \in RoomIds :
    /\ intervals[r] <= 1
    /\ r \in DOMAIN rooms =>
         /\ rooms[r].timerInterval <=> intervals[r] = 1
         /\ rooms[r].timerInterval <=> rooms[r].timerState.running
    /\ r \notin DOMAIN rooms => intervals[r] = 0

SetsRunningAgain ==
  /\ last'.op = "timer-update" /\ last'.applied
  /\ DOMAIN last'.patch = {"running"}
  /\ last'.patch.running = rooms[last'.room].timerState.running

C10_SingleTimer ==
  /\ []SingleTimer
  /\ [][/\ SetsRunningAgain =>
             /\ intervals' = intervals /\ timeouts' = timeouts
             /\ rooms'[last'.room] = rooms[last'.room]
        /\ last'.op = "tick" =>
             rooms'[last'.room].timerState.remaining
                >= rooms[last'.room].timerState.remaining - 1]_vars

\* a client has just sent running = TRUE to a room whose clock was already running
C10_Witness ==
  /\ last.op = "timer-update" /\ last.applied
  /\ last.patch = [running |-> TRUE] /\ last.wasRunning
  /\ intervals[last.room] = 1

(* C11 - Round switch resets fully: after an applied switch-round(n), n is the  *)
(* active round, and every category of round n (and of the categories view)    *)
(* has an empty progress ledger and every boulder of it has pointer 0, is not  *)
(* started and holds no skip, whatever round n held before.                    *)
Fresh(category) ==
  /\ category.climberProgress = <<>>
  /\ \A b \in DOMAIN category.boulders :
       /\ category.boulders[b].currentClimberIndex = 0
       /\ ~category.boulders[b].hasStarted
       /\ ~category.boulders[b].skipNext

C11_SwitchRoundResets ==
  [][(last'.op = "switch-round" /\ last'.applied) =>
       LET ts == rooms'[last'.room].timerState
       IN /\ ts.activeRoundIndex = last'.newIndex
          /\ \A k \in DOMAIN ts.rounds[last'.newIndex].categories :
               Fresh(ts.rounds[last'.newIndex].categories[k])
          /\ \A k \in DOMAIN ts.categories : Fresh(ts.categories[k])]_vars

\* a switch has just been made to a round that held a used category: a moved
\* pointer, a pending skip and a progress ledger
C11_Witness ==
  /\ last.op = "switch-round" /\ last.applied
  /\ \E k \in DOMAIN last.newRound.categories :
       LET c == last.newRound.categories[k]
       IN /\ c.climberProgress # <<>>
          /\ \E b \in DOMAIN c.boulders : c.boulders[b].currentClimberIndex > 0
          /\ \E b \in DOMAIN c.boulders : c.boulders[b].skipNext

(* C12 - Zero transition duration: a zero-crossing out of climb on a room whose *)
(* transition duration is 0 leaves the phase climb with remaining reloaded to  *)
(* the full climb duration; and while the transition duration is 0 no step     *)
(* other than a client patch of phase takes a room into phase transition.      *)
PatchesPhase(l) ==
  l.op = "timer-update" /\ l.applied /\ "phase" \in DOMAIN l.patch

C12_NoTransitionWhenZero ==
  [][\A r \in DOMAIN rooms \cap DOMAIN rooms' :
       LET ts == rooms[r].timerState
           after == rooms'[r].timerState
       IN /\ (last'.op = "zero-crossing" /\ last'.room = r
                /\ ts.phase = "climb" /\ totalTrans(ts) = 0)
             => (after.phase = "climb" /\ after.remaining = totalClimb(ts))
          /\ (totalTrans(ts) = 0 /\ ts.phase # "transition" /\ ~PatchesPhase(last'))
             => after.phase # "transition"]_vars

\* a climb phase has just ended on a room with transition duration 0
C12_Witness ==
  /\ last.op = "zero-crossing" /\ last.applied /\ last.from = "climb"
  /\ totalTrans(rooms[last.room].timerState) = 0
  /\ rooms[last.room].timerState.phase = "climb"
  /\ rooms[last.room].timerState.remaining = totalClimb(rooms[last.room].timerState)
  /\ \E k \in DOMAIN Cats(rooms, last.room) :
       Cats(rooms, last.room)[k].boulders[0].hasStarted

(* C13 - Roster [A,B,C] on boulder 1 from the initial state, the other boulders *)
(* untouched: the first advance starts the boulder with A up (pointer 0) and   *)
(* records boulder 1 for A; the next advances put B, then C, then A again up   *)
(* (pointer 1, 2, 0), recording boulder 1 for the climber whose turn ended.    *)
RosterABC == Arr(<<"A", "B", "C">>)

\* what the scenario observes of boulder 1: started, pointer, who has boulder 1 recorded
ShapeB1(category) ==
  [started |-> category.boulders[0].hasStarted,
   index |-> category.boulders[0].currentClimberIndex,
   done |-> {name \in Roster(category.boulders[0]) : 1 \in ProgressSet(category, name)}]

Scenario13 ==
  << [started |-> FALSE, index |-> 0, done |-> {}],
     [started |-> TRUE, index |-> 0, done |-> {"A"}],
     [started |-> TRUE, index |-> 1, done |-> {"A"}],
     [started |-> TRUE, index |-> 2, done |-> {"A", "B"}],
     [started |-> TRUE, index |-> 0, done |-> {"A", "B", "C"}] >>

OnlyBoulder1(category) ==
  /\ category.boulders[0].climbers = RosterABC
  /\ ~category.boulders[0].skipNext
  /\ \A i \in 1..3 : ~category.boulders[i].hasStarted

FreshOf(category) ==
  NewCategory(category.id, category.name, category.boulders[0].climbers)

\* the category after p consecutive batched passes
RECURSIVE AfterPasses(_, _)
AfterPasses(category, p) ==
  IF p = 0 THEN category ELSE advanceAllBoulders(AfterPasses(category, p - 1))

\* the numbers of passes after which the fresh category is the category given
PassesOf(category) ==
  {p \in 0..MaxPasses : AfterPasses(FreshOf(category), p) = category}

C14_CascadeSchedule ==
  \A r \in DOMAIN rooms :
    \A k \in DOMAIN Cats(rooms, r) :
      LET c == Cats(rooms, r)[k]
      IN /\ PassesOf(c) # {}
         /\ ALen(c.boulders[0].climbers) >= 3 =>
              \A p \in PassesOf(c) :
                \A j \in 1..4 :
                  /\ c.boulders[j - 1].hasStarted <=> p >= 2 * j - 1
                  /\ p = 2 * j - 1 =>
                       /\ c.boulders[j - 1].currentClimberIndex = 0
                       /\ j \in ProgressSet(c, c.boulders[j - 1].climbers[0])

\* the seventh pass on a roster of three or more has just started boulder 4
C14_Witness ==
  /\ BatchedPass(last.op) /\ last.applied
  /\ \E k \in DOMAIN Cats(rooms, last.room) :
       LET c == Cats(rooms, last.room)[k]
       IN /\ ALen(c.boulders[0].climbers) >= 3
          /\ 7 \in PassesOf(c)
          /\ c.boulders[3].hasStarted

(* C15 - Example table, roster [A,B,C] under successive climb-phase ends: an    *)
(* advance never puts up on a boulder a climber who already has that boulder   *)
(* in their progress set; once the last roster climber has had their turn the  *)
(* boulder has no active climber.                                              *)
C15_NoRepeatOnBoulder ==
  [][\A n \in DOMAIN calls' :
       LET c == calls'[n]
           up == ActiveClimber(c.after, c.i)
       IN (MovesPointer(c) /\ c.before.boulders[c.i].climbers = RosterABC /\ up # "")
          => c.before.boulders[c.i].boulderId \notin ProgressSet(c.before, up)]_vars

(* C16 - Phases cycle automatically: on a room left running in climb or         *)
(* transition with positive durations and no client patch, every climb phase   *)
(* is eventually followed by a transition phase and every transition phase by  *)
(* a climb phase, and each phase change loads the full configured duration of  *)
(* the new phase.                                                              *)
PhaseOf(r) == rooms[r].timerState.phase

C16_PhasesCycle ==
  /\ (PhaseOf(DEFAULT_ROOM) = "climb") ~> (PhaseOf(DEFAULT_ROOM) = "transition")
  /\ (PhaseOf(DEFAULT_ROOM) = "transition") ~> (PhaseOf(DEFAULT_ROOM) = "climb")
  /\ [][LET ts == rooms[DEFAULT_ROOM].timerState
            after == rooms'[DEFAULT_ROOM].timerState
        IN after.phase # ts.phase =>
             after.remaining = IF after.phase = "climb" THEN totalClimb(ts)
                               ELSE totalTrans(ts)]_vars

\* a transition phase that followed a climb phase has just given way to a climb phase
C16_Witness ==
  /\ last.op = "zero-crossing" /\ last.from = "transition"
  /\ PhaseOf(last.room) = "climb"
  /\ rooms[last.room].timerState.remaining = totalClimb(rooms[last.room].timerState)
  /\ rooms[last.room].timerState.running
  /\ \E k \in DOMAIN Cats(rooms, last.room) :
       \E name \in DOMAIN Cats(rooms, last.room)[k].climberProgress :
         2 \in ProgressSet(Cats(rooms, last.room)[k], name)

----------------------------------------------------------------------------
\* the commands that change the timer state
MutatingCommands ==
  {"timer-update", "config-update", "category-update", "category-delete",
   "advance-climber", "advance-boulder", "advance-category", "advance-all-climbers",
   "skip-boulder-climber", "reset-category-progress", "switch-round"}

\* the events that carry the categories or the whole timer state
SnapshotEvents == {"categories-sync", "timer-sync"}

\* C17: every mutating command that was applied has broadcast a categories
\* snapshot or a timer snapshot to every socket of its room, the sender's included
\* (the sender is one of the room's sockets: the handler acts on socket.roomId).
C17_CommandsBroadcastSnapshot ==
  (last.op \in MutatingCommands /\ last.applied) =>
     \E event \in DOMAIN last.emits \cap SnapshotEvents :
        /\ last.emits[event] = RoomSockets(last.room)
        /\ last.emits[event] # {}

----------------------------------------------------------------------------
\* the non-empty cells of a sheet's header row
HeadersOf(sheet) == IF Len(sheet) = 0 THEN <<>> ELSE SelectSeq(sheet[1], NonEmpty)

\* a sheet with at least one row below the header row
HasRows(sheet) == Len(sheet) >= 2

\* a workbook one of whose sheets with rows has more than 4 categories, or none of
\* whose sheets has rows and between 1 and 4 categories
MustReject(workbook) ==
  \/ \E k \in DOMAIN workbook : HasRows(workbook[k]) /\ Len(HeadersOf(workbook[k])) > 4
  \/ ~\E k \in DOMAIN workbook :
        HasRows(workbook[k]) /\ Len(HeadersOf(workbook[k])) \in 1..4

\* a workbook one of whose sheets has more than 4 non-empty header cells, rows or
\* no rows below them, or none of whose sheets is valid
OverCapOrNoValidSheet(workbook) ==
  \/ \E k \in DOMAIN workbook : Len(HeadersOf(workbook[k])) > 4
  \/ ~\E k \in DOMAIN workbook :
        HasRows(workbook[k]) /\ Len(HeadersOf(workbook[k])) \in 1..4

\* the import answered with an error and left rounds, activeRoundIndex, categories
\* and the saved copy of the default room as they were
RejectedUntouched ==
  /\ ~last'.applied
  /\ disk' = disk
  /\ rooms'[DEFAULT_ROOM].timerState.rounds = rooms[DEFAULT_ROOM].timerState.rounds
  /\ rooms'[DEFAULT_ROOM].timerState.activeRoundIndex =
       rooms[DEFAULT_ROOM].timerState.activeRoundIndex
  /\ rooms'[DEFAULT_ROOM].timerState.categories =
       rooms[DEFAULT_ROOM].timerState.categories

\* C18 (amended): an import in which a sheet that has rows below its header row has
\* more than 4 non-empty header columns, or in which no sheet is valid, is rejected,
\* and rounds, activeRoundIndex, categories and the saved copy stay as they were,
\* even when earlier sheets of the workbook were valid.
C18_RejectedImportAtomic ==
  [][\A workbook \in Workbooks :
       (ImportExcel(DEFAULT_ROOM, workbook) /\ MustReject(workbook)) => RejectedUntouched]_vars

\* C18 as stated: an import in which any sheet has more than 4 non-empty header
\* columns, or in which no sheet is valid, is rejected and changes nothing.
C18_AnyOverCapSheetRejects ==
  [][\A workbook \in Workbooks :
       (ImportExcel(DEFAULT_ROOM, workbook) /\ OverCapOrNoValidSheet(workbook))
          => RejectedUntouched]_vars

\* an import was rejected at a later sheet after one sheet had been accepted, in a
\* room that has a saved import with recorded progress
C18_Witness ==
  /\ last.op = "import-excel" /\ ~last.applied /\ last.newRounds = 1
  /\ ALen(rooms[DEFAULT_ROOM].timerState.rounds) = 2
  /\ DEFAULT_ROOM \in DOMAIN disk
  /\ \E k \in DOMAIN Cats(rooms, DEFAULT_ROOM) :
       DOMAIN Cats(rooms, DEFAULT_ROOM)[k].climberProgress # {}

----------------------------------------------------------------------------
\* no category of the timer state has this id
UnknownCategory(ts, categoryId) ==
  \A k \in DOMAIN ts.categories : ts.categories[k].id # categoryId

\* the category exists and none of its boulders has this boulder id
UnknownBoulder(ts, categoryId, boulderId) ==
  \E k \in DOMAIN ts.categories :
     /\ ts.categories[k].id = categoryId
     /\ \A j \in DOMAIN ts.categories[k].boulders :
          ts.categories[k].boulders[j].boulderId # boulderId

\* the index parseInt produced is NaN or not an index of rounds
RoundOutOfRange(ts, parsed) ==
  parsed.nan \/ parsed.n \notin 0..(ALen(ts.rounds) - 1)

\* the step left the timer state of room r, rounds, categories, activeRoundIndex,
\* phase, running and remaining included, and the saved copy as they were
TimerStateKept(r) ==
  /\ r \in DOMAIN rooms'
  /\ rooms'[r].timerState = rooms[r].timerState
  /\ disk' = disk

\* C19: an advance-climber or skip-boulder-climber that names an unknown category
\* or boulder id, a reset-category-progress, advance-category or category-delete
\* that names an unknown category id, and a switch-round whose index is NaN or not
\* in 0..rounds-1, leave the whole timer state of the room unchanged.
C19_DroppedCommandsChangeNothing ==
  [][\A s \in DOMAIN sockets :
       LET r == sockets[s]
           ts == rooms[r].timerState
       IN /\ \A c \in CategoryIdArgs, b \in NamedBoulderArgs :
               ((AdvanceClimber(s, c, b) \/ SkipBoulderClimber(s, c, b))
                  /\ (UnknownCategory(ts, c) \/ UnknownBoulder(ts, c, b)))
                 => TimerStateKept(r)
          /\ \A c \in CategoryIdArgs :
               ((ResetCategoryProgress(s, c) \/ AdvanceCategory(s, c)
                   \/ CategoryDelete(s, c)) /\ UnknownCategory(ts, c))
                 => TimerStateKept(r)
          /\ \A parsed \in NamedRoundArgs :
               (SwitchRound(s, parsed) /\ RoundOutOfRange(ts, parsed))
                 => TimerStateKept(r)]_vars

\* a reset naming an unknown category id was dropped in a room whose climbers
\* have recorded progress
C19_Witness ==
  /\ last.op = "reset-category-progress" /\ ~last.applied
  /\ last.room \in DOMAIN rooms
  /\ \E k \in DOMAIN Cats(rooms, last.room) :
       /\ DOMAIN Cats(rooms, last.room)[k].climberProgress # {}
       /\ Cats(rooms, last.room)[k].boulders[0].currentClimberIndex > 0

----------------------------------------------------------------------------
\* a progress list in ascending order without a repeated boulder id
StrictlyAscending(progress) ==
  \A i, j \in DOMAIN progress : i < j => progress[i] < progress[j]

\* C20: recording a (climber, boulder id) pair a second time leaves the climber's
\* progress list, and the whole category, unchanged, and after any sequence of
\* recordings every progress list is in ascending order without a duplicate.
C20_IdempotentProgress ==
  \A k \in DOMAIN Cats(rooms, DEFAULT_ROOM) :
     LET category == Cats(rooms, DEFAULT_ROOM)[k]
     IN /\ \A name \in DOMAIN category.climberProgress :
             StrictlyAscending(category.climberProgress[name])
        /\ \A name \in ClimbersOf(category), boulderId \in BoulderIds :
             LET once == recordClimberProgress(category, name, boulderId)
                 twice == recordClimberProgress(once, name, boulderId)
             IN /\ ProgressOf(twice, name) = ProgressOf(once, name)
                /\ twice = once
                /\ Includes(ProgressOf(category, name), boulderId) => once = category
                /\ ProgressSet(once, name) =
                     ProgressSet(category, name) \cup {boulderId}

\* boulder 2 has just been recorded a second time for a climber whose list holds
\* three boulders, the last of them recorded before the first
C20_Witness ==
  /\ last.op = "record" /\ last.again /\ last.boulderId = 2
  /\ ProgressOf(Cats(rooms, DEFAULT_ROOM)[0], last.climberName) = <<1, 2, 4>>

----------------------------------------------------------------------------
\* C21: after startup at least one room exists in every reachable state, and a
\* delete request or an idle sweep that finds a single registered room leaves the
\* registry, that room's state, its data file and its interval as they were.
C21_RegistryNeverEmpty ==
  /\ [](DOMAIN rooms # {})
  /\ [][(last'.op \in {"delete-room", "cleanup"} /\ Cardinality(DOMAIN rooms) = 1)
         => (rooms' = rooms /\ disk' = disk /\ intervals' = intervals)]_vars

\* the sweep collected the only registered room, idle and without viewers, and the
\* room is still there
C21_Witness ==
  /\ last.op = "cleanup" /\ ~last.applied
  /\ last.roomsToDelete # {}
  /\ DOMAIN rooms = last.roomsToDelete

----------------------------------------------------------------------------
\* C22: a sweep removes a room only if, when the sweep runs, the room is not the
\* default room, its clock is not running, no connected socket is bound to it and
\* its last activity is older than the threshold.
C22_SweepRemovesOnlyIdleRooms ==
  [][last'.op = "cleanup" =>
       \A r \in (DOMAIN rooms) \ (DOMAIN rooms') :
          /\ r # DEFAULT_ROOM
          /\ ~rooms[r].timerState.running
          /\ RoomSockets(r) = {}
          /\ rooms[r].lastActivity = "old"]_vars

----------------------------------------------------------------------------
\* C23: a command, a tick or a zero-crossing of one room leaves every other room
\* registered with the same timer state, rosters, viewer count and timer handle,
\* the same live interval and pending callbacks, and the same data file.
C23_RoomIsolation ==
  [][\A r \in DOMAIN rooms :
       r # last'.room =>
         /\ r \in DOMAIN rooms'
         /\ rooms'[r] = rooms[r]
         /\ intervals'[r] = intervals[r]
         /\ timeouts'[r] = timeouts[r]
         /\ r \in DOMAIN disk => (r \in DOMAIN disk' /\ disk'[r] = disk[r])]_vars

\* a climb phase of one room has just ended and rotated its climbers while the
\* other room, paused, still has every boulder waiting
C23_Witness ==
  /\ last.op = "zero-crossing" /\ last.room = "gym" /\ last.from = "climb"
  /\ Cats(rooms, "gym")[0].boulders[0].currentClimberIndex = 1
  /\ ~Cats(rooms, DEFAULT_ROOM)[0].boulders[0].hasStarted
  /\ ~rooms[DEFAULT_ROOM].timerState.running
  /\ rooms["gym"].timerState.running

----------------------------------------------------------------------------
\* the live fields of a room as createRoomState sets them
LiveDefaults(room) ==
  /\ room.timerState.phase = "stopped"
  /\ ~room.timerState.running
  /\ room.timerState.remaining = 240
  /\ room.connectedClients = 0
  /\ ~room.timerInterval

----------------------------------------------------------------------------
\* the positions in cs of the invocations made on category id cat
CallsOn(cs, cat) == {n \in DOMAIN cs : cs[n].cat = cat}

\* C25: when the delayed handler runs in the climb phase, every boulder of every
\* category gets exactly one advanceBoulder invocation, boulder after boulder in
\* increasing order within its category, each starting from what the one before
\* left, and the categories end as the last invocation left them; the categories
\* snapshot with the rotated rosters is sent while phase and remaining are still
\* those of the climb phase, the timer snapshot with the new phase after it; the
\* active round holds the rotated categories and the other rounds are unchanged.
C25_ClimbEndOrdering ==
  [][(last'.op = "zero-crossing" /\ last'.from = "climb") =>
       LET r == last'.room
           ts == rooms[r].timerState
           after == rooms'[r].timerState
           cats == ts.categories
           Boulders == {<<k, i>> : k \in DOMAIN cats, i \in 0..3}
       IN /\ Len(calls') = Cardinality({<<k, i>> \in Boulders : i \in DOMAIN cats[k].boulders})
          /\ \A k \in DOMAIN cats :
               LET on == CallsOn(calls', cats[k].id)
               IN /\ \A i \in DOMAIN cats[k].boulders :
                       Cardinality({n \in on : calls'[n].i = i}) = 1
                  /\ \A n, m \in on : n < m => calls'[n].i < calls'[m].i
                  /\ \A n \in on :
                       /\ calls'[n].i = 0 => calls'[n].before = cats[k]
                       /\ calls'[n].i > 0 =>
                            \E m \in on : /\ m < n /\ calls'[m].i = calls'[n].i - 1
                                           /\ calls'[n].before = calls'[m].after
                       /\ calls'[n].i = ALen(cats[k].boulders) - 1 =>
                            after.categories[k] = calls'[n].after
          /\ Len(last'.sent) = 2
          /\ last'.sent[1].event = "categories-sync"
          /\ last'.sent[1].categories = after.categories
          /\ last'.sent[1].phase = ts.phase /\ last'.sent[1].remaining = ts.remaining
          /\ last'.sent[2].event = "timer-sync"
          /\ last'.sent[2].phase = after.phase /\ last'.sent[2].remaining = after.remaining
          /\ after.rounds[ts.activeRoundIndex].categories = after.categories
          /\ \A j \in DOMAIN ts.rounds :
               j # ts.activeRoundIndex => after.rounds[j] = ts.rounds[j]]_vars

\* a climb phase has just ended into a transition phase with both categories of
\* round 1 rotated: the second boulder of Open has started
C25_Witness ==
  /\ last.op = "zero-crossing" /\ last.from = "climb"
  /\ rooms[last.room].timerState.phase = "transition"
  /\ Len(calls) = 8
  /\ Cats(rooms, last.room)[0].boulders[1].hasStarted
  /\ Cats(rooms, last.room)[1].boulders[0].hasStarted
  /\ ~rooms[last.room].timerState.rounds[1].categories[0].boulders[0].hasStarted

----------------------------------------------------------------------------
\* C26: a tick of a running room sets remaining to max(remaining - 1, 0), which
\* is never below 0, and leaves the phase; a tick that finds running = false
\* changes nothing of the timer state and only cancels the interval.
C26_TickFlooredAtZero ==
  [][(last'.op = "tick" /\ last'.room \in DOMAIN rooms) =>
       LET r == last'.room
           ts == rooms[r].timerState
           after == rooms'[r].timerState
       IN IF ts.running
          THEN /\ after.remaining = IF ts.remaining - 1 > 0 THEN ts.remaining - 1 ELSE 0
               /\ after.remaining >= 0
               /\ after = [ts EXCEPT !.remaining = after.remaining]
          ELSE /\ after = ts
               /\ ~rooms'[r].timerInterval
               /\ intervals'[r] = IF rooms[r].timerInterval
                                  THEN intervals[r] - 1 ELSE intervals[r]]_vars

\* a tick has just found the countdown at 0 and left it at 0
C26_Witness ==
  /\ last.op = "tick" /\ last.applied
  /\ last.prev = 0
  /\ rooms[last.room].timerState.remaining = 0

----------------------------------------------------------------------------
\* C27: an advance of a started boulder with no pending skip adds the boulder id
\* to the progress of the climber at the pointer, then moves the pointer to the
\* first position, scanning forward with wrap-around from (pointer + 1) mod n,
\* whose climber is not complete in the ledger after that recording, or to
\* exactly (pointer + 1) mod n when every roster climber is complete.
C27_RunningAdvance ==
  \A k \in DOMAIN calls :
    LET c == calls[k]
        old == c.before.boulders[c.i]
        new == c.after.boulders[c.i]
        n == ALen(old.climbers)
        start == (old.currentClimberIndex + 1) % n
        name == old.climbers[old.currentClimberIndex]
        \* offsets from start whose climber still has boulders left after the recording
        open == {d \in 0..(n - 1) : ~Complete(c.after, old.climbers[(start + d) % n])}
    IN MovesPointer(c) =>
         /\ old.currentClimberIndex \in DOMAIN old.climbers
         /\ ProgressSet(c.after, name) = ProgressSet(c.before, name) \cup {old.boulderId}
         /\ \A other \in Roster(old) \ {name} :
              ProgressOf(c.after, other) = ProgressOf(c.before, other)
         /\ IF open = {}
            THEN new.currentClimberIndex = start
            ELSE \E d \in open :
                   /\ \A e \in open : d <= e
                   /\ new.currentClimberIndex = (start + d) % n

\* an advance has just completed the last open climber of a roster of two or
\* more: the pointer moved on to (pointer + 1) mod n although nobody is left
C27_Witness ==
  \E k \in DOMAIN calls :
    LET c == calls[k]
        old == c.before.boulders[c.i]
        new == c.after.boulders[c.i]
    IN /\ MovesPointer(c)
       /\ ALen(old.climbers) >= 2
       /\ ~Complete(c.before, old.climbers[old.currentClimberIndex])
       /\ \A name \in Roster(old) : Complete(c.after, name)
       /\ new.currentClimberIndex = (old.currentClimberIndex + 1) % ALen(old.climbers)

----------------------------------------------------------------------------
\* C28: one advance of a boulder with a non-empty roster and skipNext = TRUE
\* clears its skipNext, sets skipNext on the next boulder if there is one, and
\* leaves its own pointer, its hasStarted and the progress ledger unchanged,
\* whether or not the boulder has started.
PendingSkip(c) ==
  /\ ALen(c.before.boulders[c.i].climbers) > 0
  /\ c.before.boulders[c.i].skipNext

C28_SkipConsumedByOneAdvance ==
  \A k \in DOMAIN calls :
    LET c == calls[k]
        old == c.before.boulders[c.i]
        new == c.after.boulders[c.i]
    IN PendingSkip(c) =>
         /\ ~new.skipNext
         /\ c.i < ALen(c.before.boulders) - 1 => c.after.boulders[c.i + 1].skipNext
         /\ new.currentClimberIndex = old.currentClimberIndex
         /\ new.hasStarted = old.hasStarted
         /\ c.after.climberProgress = c.before.climberProgress

\* an advance has just consumed the skip of a boulder that had not started and
\* handed it to the next boulder
C28_Witness ==
  \E k \in DOMAIN calls :
    LET c == calls[k]
    IN /\ PendingSkip(c)
       /\ ~c.before.boulders[c.i].hasStarted
       /\ c.i < ALen(c.before.boulders) - 1
       /\ ~c.before.boulders[c.i + 1].skipNext
       /\ c.after.boulders[c.i + 1].skipNext

\* C29: an advance of a boulder that has not started (non-empty roster, no
\* pending skip) and whose gate allows it sets hasStarted, adds the boulder id
\* to the progress of the climber at the pointer and leaves the pointer; when
\* the gate forbids it the whole category, ledger included, is unchanged.
NotYetStarted(c) ==
  /\ ALen(c.before.boulders[c.i].climbers) > 0
  /\ ~c.before.boulders[c.i].skipNext
  /\ ~c.before.boulders[c.i].hasStarted

\* the gate: boulder 1 always; a later boulder once the previous one has started
\* and its pointer is beyond 1
GateAllows(c) ==
  \/ c.i = 0
  \/ /\ c.before.boulders[c.i - 1].hasStarted
     /\ c.before.boulders[c.i - 1].currentClimberIndex > 1

C29_StartingTransition ==
  \A k \in DOMAIN calls :
    LET c == calls[k]
        old == c.before.boulders[c.i]
        new == c.after.boulders[c.i]
        name == old.climbers[old.currentClimberIndex]
    IN NotYetStarted(c) =>
         IF GateAllows(c)
         THEN /\ new.hasStarted
              /\ old.currentClimberIndex \in DOMAIN old.climbers
              /\ ProgressSet(c.after, name) =
                   ProgressSet(c.before, name) \cup {old.boulderId}
              /\ new.currentClimberIndex = old.currentClimberIndex
         ELSE c.after = c.before

\* a later boulder has just started on an advance and its first climber, who had
\* not climbed it, now has it in the ledger
C29_Witness ==
  \E k \in DOMAIN calls :
    LET c == calls[k]
        old == c.before.boulders[c.i]
    IN /\ NotYetStarted(c) /\ GateAllows(c)
       /\ c.i > 0
       /\ old.boulderId \notin ProgressSet(c.before, old.climbers[old.currentClimberIndex])
       /\ old.boulderId \in ProgressSet(c.after, old.climbers[old.currentClimberIndex])
       /\ c.after.boulders[c.i].hasStarted

----------------------------------------------------------------------------
\* C30: skip-boulder-climber on boulder i of a category: when boulder i has
\* started the categories change only by skipNext = TRUE on boulder i+1 (not at
\* all when i is the last boulder), so boulder i's pointer, every hasStarted
\* flag and the ledger are unchanged; when boulder i has not started nothing
\* changes, nothing is broadcast and nothing is saved.
C30_SkipMarksOnlyNextBoulder ==
  [][\A s \in DOMAIN sockets, categoryId \in CategoryIdArgs, boulderId \in BoulderIdArgs :
       (SkipBoulderClimber(s, categoryId, boulderId) /\ sockets[s] \in DOMAIN rooms) =>
         LET r == sockets[s]
             cats == rooms[r].timerState.categories
             k == FindCategory(cats, categoryId)
             i == FindBoulder(cats[k], boulderId)
         IN (k # -1 /\ i # -1) =>
              IF cats[k].boulders[i].hasStarted
              THEN /\ rooms'[r].timerState.categories =
                        IF i < ALen(cats[k].boulders) - 1
                        THEN [cats EXCEPT ![k].boulders[i + 1].skipNext = TRUE]
                        ELSE cats
                   /\ rooms'[r].timerState.categories[k].boulders[i].currentClimberIndex
                        = cats[k].boulders[i].currentClimberIndex
                   /\ \A j \in DOMAIN cats[k].boulders :
                        rooms'[r].timerState.categories[k].boulders[j].hasStarted
                          = cats[k].boulders[j].hasStarted
                   /\ rooms'[r].timerState.categories[k].climberProgress
                        = cats[k].climberProgress
              ELSE /\ UNCHANGED <<rooms, disk>>
                   /\ last'.emits = <<>>]_vars

\* a skip on a started boulder that is not the last has just marked the next one
C30_Witness ==
  /\ last.op = "skip-boulder-climber" /\ last.applied
  /\ last.boulderIndex < 3
  /\ LET cats == rooms[last.room].timerState.categories
         k == FindCategory(cats, last.categoryId)
     IN /\ cats[k].boulders[last.boulderIndex].hasStarted
        /\ cats[k].boulders[last.boulderIndex + 1].skipNext
        /\ ~cats[k].boulders[last.boulderIndex + 1].hasStarted

----------------------------------------------------------------------------
\* C31: reset-category-progress on category c empties c's ledger and sets
\* currentClimberIndex = 0, hasStarted = FALSE, skipNext = FALSE on all of c's
\* boulders, and leaves every roster, every other category, phase, running,
\* remaining and activeRoundIndex unchanged.
C31_ResetFrame ==
  [][\A s \in DOMAIN sockets, categoryId \in CategoryIdArgs :
       (ResetCategoryProgress(s, categoryId) /\ sockets[s] \in DOMAIN rooms) =>
         LET r == sockets[s]
             ts == rooms[r].timerState
             after == rooms'[r].timerState
             k == FindCategory(ts.categories, categoryId)
         IN k # -1 =>
              /\ DOMAIN after.categories = DOMAIN ts.categories
              /\ after.categories[k].climberProgress = <<>>
              /\ DOMAIN after.categories[k].boulders = DOMAIN ts.categories[k].boulders
              /\ \A b \in DOMAIN ts.categories[k].boulders :
                   /\ after.categories[k].boulders[b].currentClimberIndex = 0
                   /\ ~after.categories[k].boulders[b].hasStarted
                   /\ ~after.categories[k].boulders[b].skipNext
                   /\ after.categories[k].boulders[b].climbers
                        = ts.categories[k].boulders[b].climbers
              /\ \A j \in DOMAIN ts.categories \ {k} :
                   after.categories[j] = ts.categories[j]
              /\ after.phase = ts.phase
              /\ after.running = ts.running
              /\ after.remaining = ts.remaining
              /\ after.activeRoundIndex = ts.activeRoundIndex]_vars

\* a reset of one category has just left another category with its ledger, and
\* the reset category with its roster
C31_Witness ==
  /\ last.op = "reset-category-progress" /\ last.applied
  /\ LET cats == rooms[last.room].timerState.categories
         k == FindCategory(cats, last.categoryId)
     IN /\ cats[k].climberProgress = <<>>
        /\ ALen(cats[k].boulders[0].climbers) > 0
        /\ \E j \in DOMAIN cats \ {k} :
             /\ cats[j].climberProgress # <<>>
             /\ \E b \in DOMAIN cats[j].boulders : cats[j].boulders[b].hasStarted

----------------------------------------------------------------------------
\* C32: for a category with any non-empty roster of distinct climbers, rosters
\* of 1 or 2 included, if climb phases keep ending and no other command
\* arrives, eventually all 4 boulders have started and eventually every
\* climber's progress set is {1,2,3,4}.
AllBouldersStarted(category) ==
  \A b \in DOMAIN category.boulders : category.boulders[b].hasStarted

EveryoneComplete(category) ==
  \A name \in Roster(category.boulders[0]) : Complete(category, name)

C32_RotationCompletes ==
  /\ <>(\A k \in DOMAIN Cats(rooms, DEFAULT_ROOM) :
          AllBouldersStarted(Cats(rooms, DEFAULT_ROOM)[k]))
  /\ <>(\A k \in DOMAIN Cats(rooms, DEFAULT_ROOM) :
          EveryoneComplete(Cats(rooms, DEFAULT_ROOM)[k]))

----------------------------------------------------------------------------
\* C33: when a client patch has replaced phase or remaining while a delayed
\* zero-crossing handler was pending, the handler that then runs neither
\* advances climbers nor changes phase or remaining.
PatchedWhilePending(r) ==
  /\ last.op = "timer-update" /\ last.applied /\ last.room = r
  /\ DOMAIN last.patch \cap {"phase", "remaining"} # {}
  /\ timeouts[r] > 0

C33_PendingHandlerSparesNewCountdown ==
  [][\A r \in DOMAIN rooms \cap DOMAIN rooms' :
       (last'.op = "zero-crossing" /\ last'.room = r /\ PatchedWhilePending(r)) =>
         /\ calls' = <<>>
         /\ rooms'[r].timerState.categories = rooms[r].timerState.categories
         /\ rooms'[r].timerState.phase = rooms[r].timerState.phase
         /\ rooms'[r].timerState.remaining = rooms[r].timerState.remaining]_vars

----------------------------------------------------------------------------
\* C34: between any two events a room's recurring tick is active if and only
\* if its timerState.running is true, after any sequence of timer-update
\* patches, ticks, zero-crossings, connects and disconnects.
C34_TickActiveIffRunning ==
  \A r \in RoomIds :
    IF r \in DOMAIN rooms
    THEN /\ rooms[r].timerInterval <=> rooms[r].timerState.running
         /\ intervals[r] = IF rooms[r].timerState.running THEN 1 ELSE 0
    ELSE intervals[r] = 0

\* a room whose clock was paused by a patch, with a delayed handler still
\* pending and its last viewer gone, has no live interval, while the other
\* room's clock is running
C34_Witness ==
  /\ DOMAIN rooms = RoomIds
  /\ \E r \in RoomIds :
       /\ ~rooms[r].timerState.running /\ intervals[r] = 0
       /\ timeouts[r] > 0
       /\ RoomSockets(r) = {}
       /\ \E q \in RoomIds \ {r} : rooms[q].timerState.running /\ intervals[q] = 1

----------------------------------------------------------------------------
\* C35: a room's viewer count is never negative and always equals the number
\* of connected sockets bound to that room id, under any interleaving of
\* connects, disconnects, room deletion, idle eviction and re-creation.
C35_ViewerCountMatchesSockets ==
  \A r \in DOMAIN rooms :
    /\ rooms[r].connectedClients >= 0
    /\ rooms[r].connectedClients = Cardinality(RoomSockets(r))

----------------------------------------------------------------------------
\* C36: in every state reachable from a fresh category by advance, skip and
\* reset commands and zero-crossings, no climber is at the currentClimberIndex
\* of two different started boulders of the same category.
AtPointer(category, i) ==
  LET b == category.boulders[i]
  IN IF b.hasStarted /\ b.currentClimberIndex \in DOMAIN b.climbers
     THEN {b.climbers[b.currentClimberIndex]}
     ELSE {}

C36_OneBoulderPerClimber ==
  \A r \in DOMAIN rooms :
    \A k \in DOMAIN Cats(rooms, r) :
      \A i, j \in DOMAIN Cats(rooms, r)[k].boulders :
        i # j => AtPointer(Cats(rooms, r)[k], i) \cap AtPointer(Cats(rooms, r)[k], j) = {}

----------------------------------------------------------------------------
\* C37: in every state reachable from a fresh category by advance, skip and
\* reset commands and zero-crossings, the climber at the currentClimberIndex
\* of a started boulder is not complete (progress {1,2,3,4}) unless every
\* climber of that boulder's roster is complete.
C37_PointerNeverOnComplete ==
  \A r \in DOMAIN rooms :
    \A k \in DOMAIN Cats(rooms, r) :
      \A i \in DOMAIN Cats(rooms, r)[k].boulders :
        \A name \in AtPointer(Cats(rooms, r)[k], i) :
          Complete(Cats(rooms, r)[k], name) =>
            \A other \in Roster(Cats(rooms, r)[k].boulders[i]) :
              Complete(Cats(rooms, r)[k], other)

----------------------------------------------------------------------------
\* C38: in every state reachable from a fresh category by advance, skip, reset
\* and switch-round commands and zero-crossings, a boulder id is in some
\* climber's progress only if the boulder with that id of that category has
\* started, every name in the ledger is in the roster, and no such step
\* changes a roster.
\* the categories of a room: the view and those of every round
AllCategories(ts) ==
  {ts.categories[k] : k \in DOMAIN ts.categories}
  \cup UNION {{ts.rounds[n].categories[k] : k \in DOMAIN ts.rounds[n].categories} :
               n \in DOMAIN ts.rounds}

LedgerWithinStartedAndRoster(category) ==
  \A name \in DOMAIN category.climberProgress :
    /\ \E b \in DOMAIN category.boulders : name \in Roster(category.boulders[b])
    /\ \A id \in ProgressSet(category, name) :
         \E b \in DOMAIN category.boulders :
           category.boulders[b].boulderId = id /\ category.boulders[b].hasStarted

\* category id, boulder position and roster, for every boulder of the room
RostersOf(ts) ==
  UNION {{<<c.id, b, c.boulders[b].climbers>> : b \in DOMAIN c.boulders} :
           c \in AllCategories(ts)}

RotationSteps ==
  {"advance-climber", "advance-boulder", "advance-category", "advance-all-climbers",
   "skip-boulder-climber", "reset-category-progress", "switch-round", "zero-crossing"}

C38_LedgerAndRosters ==
  /\ [](\A r \in DOMAIN rooms :
          \A c \in AllCategories(rooms[r].timerState) : LedgerWithinStartedAndRoster(c))
  /\ [][\A r \in DOMAIN rooms \cap DOMAIN rooms' :
          last'.op \in RotationSteps =>
            RostersOf(rooms'[r].timerState) = RostersOf(rooms[r].timerState)]_vars

\* a switch to round 2 has just left round 1 with a ledger and a boulder that
\* has not started
C38_Witness ==
  /\ last.op = "switch-round" /\ last.applied /\ last.newIndex = 1
  /\ LET ts == rooms[last.room].timerState
     IN \E k \in DOMAIN ts.rounds[0].categories :
          LET c == ts.rounds[0].categories[k]
          IN /\ c.climberProgress # <<>>
             /\ c.boulders[1].hasStarted
             /\ ~c.boulders[2].hasStarted

====
